---- MODULE Spec2Model ----
(***************************************************************************)
(* Driver for variable length packets transfer over serial interfaces      *)
(* (src/inc/drv_pkttransfer.h), UART build (PKTTRANSFER_OVER_UART) and    *)
(* CAN build (PKTTRANSFER_OVER_CAN).                                       *)
(*                                                                         *)
(* Frame on the wire: | 0x7E | PAYLOAD | CRC16 | 0x7E | with PAYLOAD and   *)
(* CRC16 byte-stuffed (0x7E is 0x7D 0x5E, 0x7D is 0x7D 0x5D).              *)
(*                                                                         *)
(* A driver instance is a record holding the configuration                 *)
(* (payload_size_max and the two caller-owned buffers) and the fields of   *)
(* pkttransfer_state_t.  Buffers are indexed from 0 as in the source.      *)
(* The hardware and application callbacks are the environment: the bytes   *)
(* handed to tx_cb, the bytes returned by rx_cb and the payloads handed to *)
(* app_pkt_cb are recorded in the variables hw_tx, wire/rx_idx and app.    *)
(***************************************************************************)
EXTENDS Integers, Sequences, FiniteSets, TLC

VARIABLES
    inst,        \* inst[i]: driver instance i (config, buffers, state)
    wire,        \* wire[i]: the byte stream the hardware of i receives
    segs,        \* segs[i]: number of segments the line has put on wire[i]
    rx_idx,      \* rx_idx[i]: number of bytes of wire[i] already read by rx_cb
    hw_tx,       \* hw_tx[i]: bytes handed to tx_cb since the last accepted send
    tx_cur,      \* tx_cur[i]: payload of the last accepted send (NoPayload if none)
    tx_frame,    \* tx_frame[i]: the frame format applied to tx_cur[i]
    app,         \* app[i]: payloads handed to app_pkt_cb, in order
    last_op,     \* the last API call: its name, instance, size and result
    link,        \* link[i]: instance whose hardware receives what i transmits (0: none)
    asserts_ok,  \* FALSE once an assert() of the driver has failed
    can,         \* can[i]: CAN messages handed to tx_cb since the last accepted
                 \* send, identifier of that send, identifier last given to
                 \* set_can_id_rx, identifiers rx_cb was asked for
    life,        \* life[i]: number of init and deinit calls made on i, and
                 \* whether the last of them was init
    uart_ref     \* uart_ref[i]: a UART-build decoder that was given, one byte
                 \* per task call, the bytes read by rx_cb of i, and the
                 \* payloads it handed to its app_pkt_cb

vars == <<inst, wire, segs, rx_idx, hw_tx, tx_cur, tx_frame, app, last_op, link,
          asserts_ok, can, life, uart_ref>>

-----------------------------------------------------------------------------
(* Bounds of the model *)

\* config.payload_size_max given to pkttransfer_init
PayloadMax == 3

\* segments (frames, broken frames, single bytes) of a received stream
MaxSegs == 2

\* accepted packets per instance; it keeps the uint32_t counters far below
\* their wrap point, which the model does not reach
MaxPackets == 1

\* calls of pkttransfer_init and pkttransfer_deinit on a running instance
MaxLife == 2

-----------------------------------------------------------------------------
(* Constants of the driver *)

PKTTRANSFER_FRAME_CRC_SIZE == 2

\* size of payload in CAN message
PKTTRANSFER_CAN_MGS_SIZE == 8

PKTTRANSFER_ERR_OK == 0

PKTTRANSFER_ERR_BASE == 1024

PKTTRANSFER_ERR_TX_OVF == PKTTRANSFER_ERR_BASE + 1

PKTTRANSFER_STATE_DELIMITER == 0

PKTTRANSFER_STATE_BYTE == 1

PKTTRANSFER_STATE_ENCODED_BYTE == 2

PKTTRANSFER_FRAME_DELIMITER_BYTE == 126

PKTTRANSFER_FRAME_ESCAPE_BYTE == 125

PKTTRANSFER_FRAME_ENCODED_DELIMITER_BYTE == 94

PKTTRANSFER_FRAME_ENCODED_ESCAPE_BYTE == 93

-----------------------------------------------------------------------------
(* Bit operations on unsigned integers of width w (a multiple of 4) *)

\* ^ and | bit by bit
RECURSIVE XorBits(_, _, _)
XorBits(a, b, w) ==
    IF w = 0 THEN 0
    ELSE (((a % 2) + (b % 2)) % 2) + (2 * XorBits(a \div 2, b \div 2, w - 1))

RECURSIVE OrBits(_, _, _)
OrBits(a, b, w) ==
    IF w = 0 THEN 0
    ELSE (IF (a % 2) = 1 \/ (b % 2) = 1 THEN 1 ELSE 0) + (2 * OrBits(a \div 2, b \div 2, w - 1))

\* the same on hexadecimal digits, tabulated
XorDigit == [x \in 0..15 |-> [y \in 0..15 |-> XorBits(x, y, 4)]]

OrDigit == [x \in 0..15 |-> [y \in 0..15 |-> OrBits(x, y, 4)]]

\* a ^ b and a | b, digit by digit
RECURSIVE BitXor(_, _, _)
BitXor(a, b, w) ==
    IF w = 0 THEN 0
    ELSE XorDigit[a % 16][b % 16] + (16 * BitXor(a \div 16, b \div 16, w - 4))

RECURSIVE BitOr(_, _, _)
BitOr(a, b, w) ==
    IF w = 0 THEN 0
    ELSE OrDigit[a % 16][b % 16] + (16 * BitOr(a \div 16, b \div 16, w - 4))

-----------------------------------------------------------------------------
(* pkttransfer_crc16: CRC-16/X-25, computed as the source computes it *)

\* reversed poly (LSB-first) for 0x1021
poly_reversed == 33800

\* the for loop: crc = (crc & 0x0001) ? ((crc >> 1) ^ poly_reversed) : (crc >> 1)
RECURSIVE Crc16Bits(_, _)
Crc16Bits(crc, i) ==
    IF i < 8
    THEN IF (crc % 2) = 1
         THEN Crc16Bits(BitXor(crc \div 2, poly_reversed, 16), i + 1)
         ELSE Crc16Bits(crc \div 2, i + 1)
    ELSE crc

\* the while loop; crc is a uint16_t, its value is settled at the end of
\* each pass before the next one starts
RECURSIVE Crc16Bytes(_, _, _, _)
Crc16Bytes(data_p, size, byte_cnt, crc) ==
    IF byte_cnt < size
    THEN LET pass == Crc16Bits(BitXor(crc, data_p[byte_cnt] % 256, 16), 0)
         IN  IF pass < 65536
             THEN Crc16Bytes(data_p, size, byte_cnt + 1, pass)
             ELSE Crc16Bytes(data_p, size, byte_cnt + 1, pass % 65536)
    ELSE crc

\* mutant of pkttransfer_crc16: out[0] and out[1] are not swapped
pkttransfer_crc16_NoSwap(data_p, size) ==
    LET crc    == Crc16Bytes(data_p, size, 0, 65535)
        x0     == BitXor((crc \div 256) % 256, 255, 8)
        x1     == BitXor(crc % 256, 255, 8)
    IN  BitOr((x1 % 256) * 256, x0, 16)

pkttransfer_crc16(data_p, size) ==
    LET crc    == Crc16Bytes(data_p, size, 0, 65535)
        out0   == (crc \div 256) % 256                  \* (crc & 0xFF00) >> 8
        out1   == crc % 256                             \* crc & 0x00FF
        x0     == BitXor(out0, 65535 % 256, 8)          \* out[0] ^= xorout & 0x00FF
        x1     == BitXor(out1, (65535 \div 256) % 256, 8) \* out[1] ^= (xorout & 0xFF00) >> 8
        s0     == x1                                    \* swap out[0] and out[1]
        s1     == x0
    IN  BitOr((s1 % 256) * 256, s0, 16)

-----------------------------------------------------------------------------
(* Private functions of the driver, as transitions of an instance record I *)

\* mutant of CntInc: the counter is counted down
CntInc_Down(cnt) == cnt - 1

\* sof_detections_cnt++, received_packets_cnt++, sent_packets_cnt++ on a
\* uint32_t below its wrap point
CntInc(cnt) == cnt + 1

\* mutant of pkttransfer_bytes_for_sending: nothing is left for sending once
\* the last byte of the buffer has been prepared
pkttransfer_bytes_for_sending_Short(I) ==
    [ret |-> (I.tx_size # 0 /\ I.sent_size < I.tx_size),
     ok  |-> (I.tx_size >= I.sent_size)]

\* mutant of pkttransfer_bytes_for_sending: there are always bytes to send
pkttransfer_bytes_for_sending_Always(I) ==
    [ret |-> TRUE, ok |-> (I.tx_size >= I.sent_size)]

\* pkttransfer_bytes_for_sending: ok is its assert
pkttransfer_bytes_for_sending(I) ==
    [ret |-> (I.tx_size # 0), ok |-> (I.tx_size >= I.sent_size)]

\* mutant of TxNeedsEscape: the delimiter byte is not escaped
TxNeedsEscape_NoDelim(next_payload_byte) ==
    next_payload_byte = PKTTRANSFER_FRAME_ESCAPE_BYTE

\* mutant of TxNeedsEscape: the escape byte itself is not escaped
TxNeedsEscape_NoEsc(next_payload_byte) ==
    next_payload_byte = PKTTRANSFER_FRAME_DELIMITER_BYTE

\* prepare_byte, STATE_BYTE: the next byte of the buffer needs an escape sequence
TxNeedsEscape(next_payload_byte) ==
    \/ next_payload_byte = PKTTRANSFER_FRAME_DELIMITER_BYTE
    \/ next_payload_byte = PKTTRANSFER_FRAME_ESCAPE_BYTE

\* prepare_byte, STATE_ENCODED_BYTE: the second byte of the escape sequence
TxEncoded(next_payload_byte) ==
    IF next_payload_byte = PKTTRANSFER_FRAME_DELIMITER_BYTE
    THEN PKTTRANSFER_FRAME_ENCODED_DELIMITER_BYTE
    ELSE PKTTRANSFER_FRAME_ENCODED_ESCAPE_BYTE

\* mutant of TxLastPrepared: the frame is closed when one byte is left
TxLastPrepared_Early(I) == I.sent_size + 1 >= I.tx_size

\* prepare_byte: "the last byte is already prepared"
TxLastPrepared(I) == I.sent_size = I.tx_size

\* mutant of TxStateAfterFrame: the encoder stays in the body of the frame
TxStateAfterFrame_Byte == PKTTRANSFER_STATE_BYTE

\* prepare_byte: tx_state once the trailing delimiter is returned
TxStateAfterFrame == PKTTRANSFER_STATE_DELIMITER

\* pkttransfer_prepare_byte: the next wire byte and the instance after the call
pkttransfer_prepare_byte(I) ==
    LET ok == /\ I.tx_size # 0
              /\ I.tx_size <= I.payload_size_max + PKTTRANSFER_FRAME_CRC_SIZE
              /\ I.tx_size >= I.sent_size
    IN  IF TxLastPrepared(I)
        THEN [inst |-> [I EXCEPT !.sent_size = 0,
                                 !.tx_size = 0,
                                 !.tx_state = TxStateAfterFrame,
                                 !.sent_packets_cnt = CntInc(@)],
              byte |-> PKTTRANSFER_FRAME_DELIMITER_BYTE,
              ok   |-> ok]
        ELSE LET next_payload_byte == I.buf_tx[I.sent_size]
             IN  CASE I.tx_state = PKTTRANSFER_STATE_DELIMITER ->
                        [inst |-> [I EXCEPT !.tx_state = PKTTRANSFER_STATE_BYTE],
                         byte |-> PKTTRANSFER_FRAME_DELIMITER_BYTE,
                         ok   |-> ok]
                   [] I.tx_state = PKTTRANSFER_STATE_BYTE ->
                        IF TxNeedsEscape(next_payload_byte)
                        THEN [inst |-> [I EXCEPT !.tx_state = PKTTRANSFER_STATE_ENCODED_BYTE],
                              byte |-> PKTTRANSFER_FRAME_ESCAPE_BYTE,
                              ok   |-> ok]
                        ELSE [inst |-> [I EXCEPT !.sent_size = @ + 1],
                              byte |-> next_payload_byte,
                              ok   |-> ok]
                   [] I.tx_state = PKTTRANSFER_STATE_ENCODED_BYTE ->
                        [inst |-> [I EXCEPT !.sent_size = @ + 1,
                                            !.tx_state = PKTTRANSFER_STATE_BYTE],
                         byte |-> TxEncoded(next_payload_byte),
                         ok   |-> ok]
                   [] OTHER ->
                        [inst |-> I, byte |-> 0, ok |-> FALSE]

\* mutant of RxCrcOk: only the low bytes of the two CRCs are compared
RxCrcOk_LowByteOnly(I) ==
    I.buf_rx[I.rx_size - 2] =
        pkttransfer_crc16(I.buf_rx, I.rx_size - PKTTRANSFER_FRAME_CRC_SIZE) % 256

\* process_frame: the CRC field of the buffered frame equals the CRC of its payload
RxCrcOk(I) ==
    LET actual_crc   == BitOr((I.buf_rx[I.rx_size - 1] * 256) % 65536,
                              I.buf_rx[I.rx_size - 2], 16)
        expected_crc == pkttransfer_crc16(I.buf_rx,
                              I.rx_size - PKTTRANSFER_FRAME_CRC_SIZE)
    IN  actual_crc = expected_crc

\* mutant of RxOverflow: the overflow is detected when the buffer of
\* payload_size_max + 2 bytes is full
RxOverflow_WithCrc(I) ==
    I.rx_size >= I.payload_size_max + PKTTRANSFER_FRAME_CRC_SIZE

\* process_byte: "rx buffer overflow is detected"
RxOverflow(I) == I.rx_size >= I.payload_size_max

\* mutant of RxWrongEscape: a second escape byte is taken for an encoded byte
RxWrongEscape_Lenient(byte) ==
    /\ byte # PKTTRANSFER_FRAME_ENCODED_DELIMITER_BYTE
    /\ byte # PKTTRANSFER_FRAME_ENCODED_ESCAPE_BYTE
    /\ byte # PKTTRANSFER_FRAME_ESCAPE_BYTE

\* process_byte, STATE_ENCODED_BYTE: "wrong escape sequence is detected"
RxWrongEscape(byte) ==
    /\ byte # PKTTRANSFER_FRAME_ENCODED_DELIMITER_BYTE
    /\ byte # PKTTRANSFER_FRAME_ENCODED_ESCAPE_BYTE

\* process_byte, STATE_ENCODED_BYTE: the byte an escape sequence stands for
RxDecoded(byte) ==
    IF byte = PKTTRANSFER_FRAME_ENCODED_DELIMITER_BYTE
    THEN PKTTRANSFER_FRAME_DELIMITER_BYTE
    ELSE PKTTRANSFER_FRAME_ESCAPE_BYTE

\* mutant of RxStateAfterFrame: the closing delimiter also opens the next frame
RxStateAfterFrame_Byte == PKTTRANSFER_STATE_BYTE

\* process_byte, STATE_BYTE: rx_state once "end of frame is detected"
RxStateAfterFrame == PKTTRANSFER_STATE_DELIMITER

\* mutant of RxSizeAfterFrame: the buffered bytes are kept after the frame
RxSizeAfterFrame_Kept(I) == I.rx_size

\* process_byte, STATE_BYTE: rx_size once "end of frame is detected"
RxSizeAfterFrame(I) == 0

\* the payload app_pkt_cb reads: size bytes at payload_p
CbPayload(buf, size) == [k \in 1..size |-> buf[k - 1]]

\* mutant of RxTooShort: a frame that holds only a CRC passes the size check
RxTooShort_Strict(I) == I.rx_size < PKTTRANSFER_FRAME_CRC_SIZE

\* process_frame, "Check size"
RxTooShort(I) == I.rx_size <= PKTTRANSFER_FRAME_CRC_SIZE

\* mutant of pkttransfer_process_frame: the packet is counted, app_pkt_cb is
\* not called
pkttransfer_process_frame_NoCb(I) ==
    LET ok == I.rx_size <= I.payload_size_max + PKTTRANSFER_FRAME_CRC_SIZE
    IN  IF RxTooShort(I) \/ ~RxCrcOk(I)
        THEN [inst |-> I, cb |-> <<>>, seen |-> <<>>, ok |-> ok]
        ELSE [inst |-> [I EXCEPT !.received_packets_cnt = CntInc(@)],
              cb   |-> <<>>,
              seen |-> <<>>,
              ok   |-> ok]

\* mutant of pkttransfer_process_frame: app_pkt_cb is called before the
\* packet is counted
pkttransfer_process_frame_CbFirst(I) ==
    LET ok == I.rx_size <= I.payload_size_max + PKTTRANSFER_FRAME_CRC_SIZE
    IN  IF RxTooShort(I) \/ ~RxCrcOk(I)
        THEN [inst |-> I, cb |-> <<>>, seen |-> <<>>, ok |-> ok]
        ELSE [inst |-> [I EXCEPT !.received_packets_cnt = CntInc(@)],
              cb   |-> <<CbPayload(I.buf_rx, I.rx_size - PKTTRANSFER_FRAME_CRC_SIZE)>>,
              seen |-> <<I.received_packets_cnt>>,
              ok   |-> ok]

\* pkttransfer_process_frame: cb is the sequence of app_pkt_cb calls it makes,
\* seen the value received_packets_cnt has during each of these calls (what
\* pkttransfer_get_instance_data returns to the callback)
pkttransfer_process_frame(I) ==
    LET ok == I.rx_size <= I.payload_size_max + PKTTRANSFER_FRAME_CRC_SIZE
    IN  IF RxTooShort(I)
        THEN [inst |-> I, cb |-> <<>>, seen |-> <<>>, ok |-> ok]
        ELSE IF ~RxCrcOk(I)
        THEN [inst |-> I, cb |-> <<>>, seen |-> <<>>, ok |-> ok]
        ELSE [inst |-> [I EXCEPT !.received_packets_cnt = CntInc(@)],
              cb   |-> <<CbPayload(I.buf_rx, I.rx_size - PKTTRANSFER_FRAME_CRC_SIZE)>>,
              seen |-> <<CntInc(I.received_packets_cnt)>>,
              ok   |-> ok]

\* pkttransfer_process_byte: consume one received wire byte
pkttransfer_process_byte(I, byte) ==
    LET ok == I.rx_size <= I.payload_size_max + PKTTRANSFER_FRAME_CRC_SIZE
    IN  CASE I.rx_state = PKTTRANSFER_STATE_DELIMITER ->
               IF byte = PKTTRANSFER_FRAME_DELIMITER_BYTE
               THEN [inst |-> [I EXCEPT !.sof_detections_cnt = CntInc(@),
                                        !.rx_state = PKTTRANSFER_STATE_BYTE],
                     cb |-> <<>>, seen |-> <<>>, ok |-> ok]
               ELSE [inst |-> I, cb |-> <<>>, seen |-> <<>>, ok |-> ok]
          [] I.rx_state = PKTTRANSFER_STATE_BYTE ->
               IF byte = PKTTRANSFER_FRAME_ESCAPE_BYTE
               THEN [inst |-> [I EXCEPT !.rx_state = PKTTRANSFER_STATE_ENCODED_BYTE],
                     cb |-> <<>>, seen |-> <<>>, ok |-> ok]
               ELSE IF byte = PKTTRANSFER_FRAME_DELIMITER_BYTE
               THEN LET f == pkttransfer_process_frame(I)
                    IN  [inst |-> [f.inst EXCEPT !.rx_size = RxSizeAfterFrame(I),
                                                 !.rx_state = RxStateAfterFrame],
                         cb |-> f.cb, seen |-> f.seen, ok |-> ok /\ f.ok]
               ELSE IF RxOverflow(I)
               THEN [inst |-> [I EXCEPT !.rx_size = 0,
                                        !.rx_state = PKTTRANSFER_STATE_DELIMITER],
                     cb |-> <<>>, seen |-> <<>>, ok |-> ok]
               ELSE [inst |-> [I EXCEPT !.buf_rx[I.rx_size] = byte,
                                        !.rx_size = @ + 1],
                     cb |-> <<>>, seen |-> <<>>, ok |-> ok]
          [] I.rx_state = PKTTRANSFER_STATE_ENCODED_BYTE ->
               IF RxWrongEscape(byte) \/ RxOverflow(I)
               THEN [inst |-> [I EXCEPT !.rx_size = 0,
                                        !.rx_state = PKTTRANSFER_STATE_DELIMITER],
                     cb |-> <<>>, seen |-> <<>>, ok |-> ok]
               ELSE [inst |-> [I EXCEPT !.buf_rx[I.rx_size] = RxDecoded(byte),
                                        !.rx_size = @ + 1,
                                        !.rx_state = PKTTRANSFER_STATE_BYTE],
                     cb |-> <<>>, seen |-> <<>>, ok |-> ok]
          [] OTHER ->
               [inst |-> I, cb |-> <<>>, seen |-> <<>>, ok |-> FALSE]

-----------------------------------------------------------------------------
(* Public functions of the driver *)

\* the caller's buffers: static storage of payload_size_max + CRC size bytes
ZeroBuf(payload_size_max) ==
    [k \in 0..(payload_size_max + PKTTRANSFER_FRAME_CRC_SIZE - 1) |-> 0]

\* pkttransfer_init: memset of the instance, then the copies of the arguments.
\* hw_itf, app_itf, buf_tx_p and buf_rx_p are 1 for the caller's structures
\* and buffer addresses and 0 for zeroed bytes; buf_tx and buf_rx are the
\* contents of the caller's two buffers, which init does not touch.
pkttransfer_init(payload_size_max, buf_tx, buf_rx) ==
    [hw_itf               |-> 1,
     app_itf              |-> 1,
     payload_size_max     |-> payload_size_max,
     buf_tx_p             |-> 1,
     buf_rx_p             |-> 1,
     buf_tx               |-> buf_tx,
     buf_rx               |-> buf_rx,
     can_id_rx            |-> 0,
     can_id_tx            |-> 0,
     tx_state             |-> 0,
     tx_size              |-> 0,
     sent_size            |-> 0,
     rx_state             |-> 0,
     rx_size              |-> 0,
     sof_detections_cnt   |-> 0,
     received_packets_cnt |-> 0,
     sent_packets_cnt     |-> 0]

\* mutant of pkttransfer_deinit: a deinitialized instance is left as it is,
\* an initialized one keeps its counters
pkttransfer_deinit_Partial(I) ==
    [I EXCEPT !.hw_itf = 0, !.app_itf = 0, !.payload_size_max = 0,
              !.buf_tx_p = 0, !.buf_rx_p = 0,
              !.tx_state = 0, !.tx_size = 0, !.sent_size = 0,
              !.rx_state = 0, !.rx_size = 0,
              !.can_id_rx = 0, !.can_id_tx = 0]

\* mutant of Memset0: the CAN identifiers survive
Memset0_KeepCan(I) ==
    [pkttransfer_init(0, I.buf_tx, I.buf_rx) EXCEPT
        !.hw_itf = 0, !.app_itf = 0, !.buf_tx_p = 0, !.buf_rx_p = 0,
        !.can_id_rx = I.can_id_rx, !.can_id_tx = I.can_id_tx]

\* memset(inst_p, 0x00, sizeof(pkttransfer_t)); the caller's buffers are not
\* part of the instance and keep their contents
Memset0(I) ==
    [hw_itf               |-> 0,
     app_itf              |-> 0,
     payload_size_max     |-> 0,
     buf_tx_p             |-> 0,
     buf_rx_p             |-> 0,
     buf_tx               |-> I.buf_tx,
     buf_rx               |-> I.buf_rx,
     can_id_rx            |-> 0,
     can_id_tx            |-> 0,
     tx_state             |-> 0,
     tx_size              |-> 0,
     sent_size            |-> 0,
     rx_state             |-> 0,
     rx_size              |-> 0,
     sof_detections_cnt   |-> 0,
     received_packets_cnt |-> 0,
     sent_packets_cnt     |-> 0]

\* pkttransfer_deinit
pkttransfer_deinit(I) == Memset0(I)

\* mutant of pkttransfer_init_inst: the copies are made without the memset
pkttransfer_init_inst_NoMemset(I, payload_size_max) ==
    [I EXCEPT !.hw_itf = 1, !.app_itf = 1,
              !.payload_size_max = payload_size_max,
              !.buf_tx_p = 1, !.buf_rx_p = 1]

\* pkttransfer_init applied to an instance I in any state ("can be already
\* initialized"), with the same buffers: the memset, then the three memcpy
pkttransfer_init_inst(I, payload_size_max) ==
    [Memset0(I) EXCEPT !.hw_itf = 1, !.app_itf = 1,
                       !.payload_size_max = payload_size_max,
                       !.buf_tx_p = 1, !.buf_rx_p = 1]

\* pkttransfer_is_init
pkttransfer_is_init(I) == I.payload_size_max # 0

\* mutant of CopyPayload: the last byte of the payload is not copied
CopyPayload_OneShort(buf, payload_p, size) ==
    [k \in DOMAIN buf |-> IF k + 1 < size THEN payload_p[k + 1] ELSE buf[k]]

\* memcpy(config_p->buf_tx_p, payload_p, size); payload_p is a sequence here
CopyPayload(buf, payload_p, size) ==
    [k \in DOMAIN buf |-> IF k < size THEN payload_p[k + 1] ELSE buf[k]]

\* mutant of SendTooLong: a payload one byte longer than payload_size_max
\* is accepted
SendTooLong_Lenient(I, size) == size > I.payload_size_max + 1

\* mutant of SendTooLong: off by one, a payload of payload_size_max is refused
SendTooLong_OffByOne(I, size) == size >= I.payload_size_max

\* send: "payload exceeds maximum packet lenght"
SendTooLong(I, size) == size > I.payload_size_max

\* mutant of SendBusy: the packet in flight is not checked
SendBusy_Never(I) == FALSE

\* send: "previous packet isn't sent"
SendBusy(I) == I.tx_size # 0

\* mutant of pkttransfer_send: sent_size is reset before the busy check
pkttransfer_send_ResetFirst(I, payload_p, size) ==
    IF SendTooLong(I, size)
    THEN [inst |-> I, res |-> PKTTRANSFER_ERR_TX_OVF]
    ELSE IF SendBusy(I)
    THEN [inst |-> [I EXCEPT !.sent_size = 0], res |-> PKTTRANSFER_ERR_TX_OVF]
    ELSE LET copied == CopyPayload(I.buf_tx, payload_p, size)
             crc    == pkttransfer_crc16(copied, size)
         IN  [inst |-> [I EXCEPT !.buf_tx = [copied EXCEPT ![size] = crc % 256,
                                                           ![size + 1] = crc \div 256],
                                 !.tx_size = size + PKTTRANSFER_FRAME_CRC_SIZE,
                                 !.sent_size = 0],
              res  |-> PKTTRANSFER_ERR_OK]

\* pkttransfer_send (UART signature): the instance after the call and the result
pkttransfer_send(I, payload_p, size) ==
    IF SendTooLong(I, size)
    THEN [inst |-> I, res |-> PKTTRANSFER_ERR_TX_OVF]
    ELSE IF SendBusy(I)
    THEN [inst |-> I, res |-> PKTTRANSFER_ERR_TX_OVF]
    ELSE LET copied == CopyPayload(I.buf_tx, payload_p, size)
             crc    == pkttransfer_crc16(copied, size)
         IN  [inst |-> [I EXCEPT !.buf_tx = [copied EXCEPT ![size] = crc % 256,
                                                           ![size + 1] = crc \div 256],
                                 !.tx_size = size + PKTTRANSFER_FRAME_CRC_SIZE,
                                 !.sent_size = 0],
              res  |-> PKTTRANSFER_ERR_OK]

\* a call of a callback of the hardware interface with the value it
\* returns (tx_is_avail_cb, rx_is_ready_cb: 1 for true, 0 for false; rx_cb:
\* the byte) or is given (tx_cb: the byte)
HwCall(cb, val) == <<[cb |-> cb, val |-> val]>>

BoolVal(b) == IF b THEN 1 ELSE 0

\* mutant of pkttransfer_task: tx_is_avail_cb is not asked
pkttransfer_task_NoGate(I, tx_is_avail, rx_is_ready, rx_byte) ==
    LET bfs  == pkttransfer_bytes_for_sending(I)
        p    == IF bfs.ret THEN pkttransfer_prepare_byte(I)
                ELSE [inst |-> I, byte |-> 0, ok |-> TRUE]
        r    == IF rx_is_ready THEN pkttransfer_process_byte(p.inst, rx_byte)
                ELSE [inst |-> p.inst, cb |-> <<>>, seen |-> <<>>, ok |-> TRUE]
    IN  [inst |-> r.inst,
         tx   |-> IF bfs.ret THEN <<p.byte>> ELSE <<>>,
         rx   |-> rx_is_ready,
         cb   |-> r.cb,
         seen |-> r.seen,
         hw   |-> (IF bfs.ret THEN HwCall("tx_cb", p.byte) ELSE <<>>)
                  \o HwCall("rx_is_ready_cb", BoolVal(rx_is_ready))
                  \o (IF rx_is_ready THEN HwCall("rx_cb", rx_byte) ELSE <<>>),
         ok   |-> pkttransfer_is_init(I) /\ bfs.ok /\ p.ok /\ r.ok]

\* mutant of pkttransfer_task: rx_is_ready_cb is not asked, rx_cb is always
\* called
pkttransfer_task_NoRxGate(I, tx_is_avail, rx_is_ready, rx_byte) ==
    LET bfs  == pkttransfer_bytes_for_sending(I)
        send == bfs.ret /\ tx_is_avail
        p    == IF send THEN pkttransfer_prepare_byte(I)
                ELSE [inst |-> I, byte |-> 0, ok |-> TRUE]
        r    == pkttransfer_process_byte(p.inst, rx_byte)
    IN  [inst |-> r.inst,
         tx   |-> IF send THEN <<p.byte>> ELSE <<>>,
         rx   |-> TRUE,
         cb   |-> r.cb,
         seen |-> r.seen,
         hw   |-> (IF bfs.ret THEN HwCall("tx_is_avail_cb", BoolVal(tx_is_avail))
                   ELSE <<>>)
                  \o (IF send THEN HwCall("tx_cb", p.byte) ELSE <<>>)
                  \o HwCall("rx_cb", rx_byte),
         ok   |-> pkttransfer_is_init(I) /\ bfs.ok /\ p.ok /\ r.ok]

\* mutant of pkttransfer_task: the receive step is made before the transmit
\* step
pkttransfer_task_RxFirst(I, tx_is_avail, rx_is_ready, rx_byte) ==
    LET r    == IF rx_is_ready THEN pkttransfer_process_byte(I, rx_byte)
                ELSE [inst |-> I, cb |-> <<>>, seen |-> <<>>, ok |-> TRUE]
        bfs  == pkttransfer_bytes_for_sending(r.inst)
        send == bfs.ret /\ tx_is_avail
        p    == IF send THEN pkttransfer_prepare_byte(r.inst)
                ELSE [inst |-> r.inst, byte |-> 0, ok |-> TRUE]
    IN  [inst |-> p.inst,
         tx   |-> IF send THEN <<p.byte>> ELSE <<>>,
         rx   |-> rx_is_ready,
         cb   |-> r.cb,
         seen |-> r.seen,
         hw   |-> HwCall("rx_is_ready_cb", BoolVal(rx_is_ready))
                  \o (IF rx_is_ready THEN HwCall("rx_cb", rx_byte) ELSE <<>>)
                  \o (IF bfs.ret THEN HwCall("tx_is_avail_cb", BoolVal(tx_is_avail))
                      ELSE <<>>)
                  \o (IF send THEN HwCall("tx_cb", p.byte) ELSE <<>>),
         ok   |-> pkttransfer_is_init(I) /\ bfs.ok /\ p.ok /\ r.ok]

\* pkttransfer_task (UART): tx_is_avail and rx_is_ready are the results of the
\* hardware predicates, rx_byte is what rx_cb returns.  tx is the sequence of
\* bytes handed to tx_cb, cb the calls of app_pkt_cb, hw the calls of the
\* callbacks of the hardware interface in the order they are made.
pkttransfer_task(I, tx_is_avail, rx_is_ready, rx_byte) ==
    LET bfs  == pkttransfer_bytes_for_sending(I)
        send == bfs.ret /\ tx_is_avail
        p    == IF send THEN pkttransfer_prepare_byte(I)
                ELSE [inst |-> I, byte |-> 0, ok |-> TRUE]
        r    == IF rx_is_ready THEN pkttransfer_process_byte(p.inst, rx_byte)
                ELSE [inst |-> p.inst, cb |-> <<>>, seen |-> <<>>, ok |-> TRUE]
    IN  [inst |-> r.inst,
         tx   |-> IF send THEN <<p.byte>> ELSE <<>>,
         rx   |-> rx_is_ready,
         cb   |-> r.cb,
         seen |-> r.seen,
         hw   |-> (IF bfs.ret THEN HwCall("tx_is_avail_cb", BoolVal(tx_is_avail))
                   ELSE <<>>)
                  \o (IF send THEN HwCall("tx_cb", p.byte) ELSE <<>>)
                  \o HwCall("rx_is_ready_cb", BoolVal(rx_is_ready))
                  \o (IF rx_is_ready THEN HwCall("rx_cb", rx_byte) ELSE <<>>),
         ok   |-> pkttransfer_is_init(I) /\ bfs.ok /\ p.ok /\ r.ok]

-----------------------------------------------------------------------------
(* Public functions of the CAN build *)

\* mutant of pkttransfer_send_can: can_id_tx is stored before the checks
pkttransfer_send_can_IdFirst(I, payload_p, size, can_id_tx) ==
    LET s == pkttransfer_send(I, payload_p, size)
    IN  [inst |-> [s.inst EXCEPT !.can_id_tx = can_id_tx], res |-> s.res]

\* pkttransfer_send (CAN signature): as the UART one, and can_id_tx is stored
\* with the accepted payload
pkttransfer_send_can(I, payload_p, size, can_id_tx) ==
    LET s == pkttransfer_send(I, payload_p, size)
    IN  IF s.res = PKTTRANSFER_ERR_OK
        THEN [inst |-> [s.inst EXCEPT !.can_id_tx = can_id_tx], res |-> s.res]
        ELSE s

\* mutant of pkttransfer_set_can_id_rx: the identifier is stored for both
\* directions
pkttransfer_set_can_id_rx_Both(I, can_id_rx) ==
    [inst |-> [I EXCEPT !.can_id_rx = can_id_rx, !.can_id_tx = can_id_rx],
     ok |-> pkttransfer_is_init(I)]

\* pkttransfer_set_can_id_rx: ok is its assert
pkttransfer_set_can_id_rx(I, can_id_rx) ==
    [inst |-> [I EXCEPT !.can_id_rx = can_id_rx], ok |-> pkttransfer_is_init(I)]

\* mutant of CanPrepare: the loop does not stop at the end of the packet
RECURSIVE CanPrepare_NoBreak(_, _, _)
CanPrepare_NoBreak(I, transmit_buf, ok) ==
    LET p   == IF I.tx_size # 0 THEN pkttransfer_prepare_byte(I)
               ELSE [inst |-> I, byte |-> 0, ok |-> TRUE]
        buf == Append(transmit_buf, p.byte)
    IN  IF Len(buf) < PKTTRANSFER_CAN_MGS_SIZE
        THEN CanPrepare_NoBreak(p.inst, buf, ok /\ p.ok)
        ELSE [inst |-> p.inst, buf |-> buf, ok |-> ok /\ p.ok]

\* task (CAN), "Prepare bytes": the for loop that fills transmit_buf, left
\* when the buffer is full or no bytes are left for sending.  p is the
\* result of pkttransfer_prepare_byte, buf the buffer with its byte stored,
\* bfs the result of pkttransfer_bytes_for_sending after it.
RECURSIVE CanPrepare(_, _, _)
CanPrepareNext(p, buf, bfs, ok) ==
    IF Len(buf) < PKTTRANSFER_CAN_MGS_SIZE /\ bfs.ret
    THEN CanPrepare(p.inst, buf, ok /\ p.ok /\ bfs.ok)
    ELSE [inst |-> p.inst, buf |-> buf, ok |-> ok /\ p.ok /\ bfs.ok]

CanPrepareByte(p, transmit_buf, ok) ==
    CanPrepareNext(p, Append(transmit_buf, p.byte),
                   pkttransfer_bytes_for_sending(p.inst), ok)

CanPrepare(I, transmit_buf, ok) ==
    CanPrepareByte(pkttransfer_prepare_byte(I), transmit_buf, ok)

\* mutant of CanProcess: the last byte of a full message is not processed
RECURSIVE CanProcess_SevenOnly(_, _, _, _, _)
CanProcess_SevenOnly(I, received_buf, i, cb, ok) ==
    IF i < Len(received_buf) /\ i < PKTTRANSFER_CAN_MGS_SIZE - 1
    THEN LET r == pkttransfer_process_byte(I, received_buf[i + 1])
         IN  CanProcess_SevenOnly(r.inst, received_buf, i + 1, cb \o r.cb, ok /\ r.ok)
    ELSE [inst |-> I, cb |-> cb, ok |-> ok]

\* task (CAN), "Process received bytes": the for loop over received_buf; r
\* is the result of pkttransfer_process_byte on received_buf[i]
RECURSIVE CanProcess(_, _, _, _, _)
CanProcessNext(r, received_buf, i, cb, ok) ==
    CanProcess(r.inst, received_buf, i + 1, cb \o r.cb, ok /\ r.ok)

CanProcess(I, received_buf, i, cb, ok) ==
    IF i < Len(received_buf)
    THEN CanProcessNext(pkttransfer_process_byte(I, received_buf[i + 1]),
                        received_buf, i, cb, ok)
    ELSE [inst |-> I, cb |-> cb, ok |-> ok]

\* pkttransfer_task (CAN): rx_data is the data rx_cb copies out.  tx is the
\* sequence of messages handed to tx_cb (data and identifier), rx_id the
\* sequence of identifiers rx_cb was called with.  bfs is the result of
\* pkttransfer_bytes_for_sending, p the state after the transmit branch, r
\* the state after the receive branch.
TaskCanResult(I, bfs, send, p, rx_is_ready, r) ==
    [inst  |-> r.inst,
     tx    |-> IF send THEN <<[data |-> p.buf, can_id |-> p.inst.can_id_tx]>>
               ELSE <<>>,
     rx    |-> rx_is_ready,
     rx_id |-> IF rx_is_ready THEN <<p.inst.can_id_rx>> ELSE <<>>,
     cb    |-> r.cb,
     ok    |-> pkttransfer_is_init(I) /\ bfs.ok /\ p.ok /\ r.ok]

TaskCanRx(I, bfs, send, p, rx_is_ready, rx_data) ==
    TaskCanResult(I, bfs, send, p, rx_is_ready,
                  IF rx_is_ready THEN CanProcess(p.inst, rx_data, 0, <<>>, TRUE)
                  ELSE [inst |-> p.inst, cb |-> <<>>, ok |-> TRUE])

TaskCanTx(I, bfs, send, rx_is_ready, rx_data) ==
    TaskCanRx(I, bfs, send,
              IF send THEN CanPrepare(I, <<>>, TRUE)
              ELSE [inst |-> I, buf |-> <<>>, ok |-> TRUE],
              rx_is_ready, rx_data)

TaskCanBfs(I, bfs, tx_is_avail, rx_is_ready, rx_data) ==
    TaskCanTx(I, bfs, bfs.ret /\ tx_is_avail, rx_is_ready, rx_data)

pkttransfer_task_can(I, tx_is_avail, rx_is_ready, rx_data) ==
    TaskCanBfs(I, pkttransfer_bytes_for_sending(I), tx_is_avail, rx_is_ready,
               rx_data)

-----------------------------------------------------------------------------
(* The frame format, stated independently of the encoder *)

\* a sequence as a buffer indexed from 0
ToBuf(s) == [k \in 0..(Len(s) - 1) |-> s[k + 1]]

\* payload followed by its CRC, low byte first
Body(p) ==
    LET crc == pkttransfer_crc16(ToBuf(p), Len(p))
    IN  p \o <<crc % 256, crc \div 256>>

\* byte stuffing: 0x7E is 0x7D 0x5E, 0x7D is 0x7D 0x5D
RECURSIVE Stuffed(_)
Stuffed(s) ==
    IF s = <<>> THEN <<>>
    ELSE (IF Head(s) = 126 THEN <<125, 94>>
          ELSE IF Head(s) = 125 THEN <<125, 93>>
          ELSE <<Head(s)>>) \o Stuffed(Tail(s))

\* 0x7E, stuffed(payload . CRC_LO . CRC_HI), 0x7E
Frame(p) == <<126>> \o Stuffed(Body(p)) \o <<126>>

IsPrefix(s, t) == Len(s) <= Len(t) /\ SubSeq(t, 1, Len(s)) = s

-----------------------------------------------------------------------------
(* The environment: application, hardware and wire *)

\* the driver instances of the model
Ids == {1, 2}

\* bytes the application puts in payloads: an ordinary byte (whose CRC
\* 0x7E20 needs stuffing), the escape byte and the delimiter byte
PayloadBytes == {42, 125, 126}

\* all payloads of at most n bytes
Payloads(n) == UNION {[1..k -> PayloadBytes] : k \in 0..n}

\* the payloads of a given size the application may pass to send.  send
\* returns before it reads payload_p when it refuses the call, so one payload
\* stands for all payloads of that size in the calls it refuses.
SendPayloads(I, size) ==
    IF SendTooLong(I, size) \/ SendBusy(I)
    THEN {[k \in 1..size |-> 42]}
    ELSE [1..size -> PayloadBytes]

\* value of tx_cur before the first accepted send
NoPayload == <<-1>>

\* an instance right after pkttransfer_init with zeroed static buffers
FreshInst ==
    pkttransfer_init(PayloadMax, ZeroBuf(PayloadMax), ZeroBuf(PayloadMax))

\* value of can[i] after init: no message sent (tx), no identifier passed to
\* an accepted send (id_tx), to any send (id_try) or to set_can_id_rx (id_rx),
\* rx_cb not called; rx_req is the identifiers the last task call gave rx_cb
NoCan == [tx |-> <<>>, id_tx |-> 0, id_try |-> 0, id_rx |-> 0, rx_req |-> <<>>]

\* the application calls pkttransfer_send on instance i
Send(i) ==
    \E size \in 0..(PayloadMax + 2) : \E payload_p \in SendPayloads(inst[i], size) :
        LET s == pkttransfer_send(inst[i], payload_p, Len(payload_p))
        IN  /\ pkttransfer_is_init(inst[i])
            /\ (~SendTooLong(inst[i], size) /\ ~SendBusy(inst[i]))
                    => (inst[i].sent_packets_cnt < MaxPackets)
            /\ inst' = [inst EXCEPT ![i] = s.inst]
            /\ tx_cur' = IF s.res = PKTTRANSFER_ERR_OK
                         THEN [tx_cur EXCEPT ![i] = payload_p] ELSE tx_cur
            /\ tx_frame' = IF s.res = PKTTRANSFER_ERR_OK
                           THEN [tx_frame EXCEPT ![i] = Frame(payload_p)] ELSE tx_frame
            /\ hw_tx' = IF s.res = PKTTRANSFER_ERR_OK
                        THEN [hw_tx EXCEPT ![i] = <<>>] ELSE hw_tx
            /\ last_op' = [op |-> "send", id |-> i, size |-> Len(payload_p),
                           res |-> s.res]
            /\ UNCHANGED <<wire, segs, rx_idx, app, link, asserts_ok, can, life,
                           uart_ref>>

\* the main loop calls pkttransfer_task on instance i; the hardware answers
\* tx_is_avail as it likes and rx_is_ready only when a byte is waiting
TaskWith(i, tx_is_avail) ==
      \E rx_is_ready \in {r \in BOOLEAN : r => rx_idx[i] < Len(wire[i])} :
        LET rx_byte == IF rx_is_ready THEN wire[i][rx_idx[i] + 1] ELSE 0
            t       == pkttransfer_task(inst[i], tx_is_avail, rx_is_ready, rx_byte)
        IN  /\ pkttransfer_is_init(inst[i])
            /\ inst' = [inst EXCEPT ![i] = t.inst]
            /\ hw_tx' = [hw_tx EXCEPT ![i] = @ \o t.tx]
            /\ wire' = IF link[i] # 0
                       THEN [wire EXCEPT ![link[i]] = @ \o t.tx] ELSE wire
            /\ rx_idx' = IF t.rx THEN [rx_idx EXCEPT ![i] = @ + 1] ELSE rx_idx
            /\ app' = [app EXCEPT ![i] = @ \o t.cb]
            /\ last_op' = [op |-> "task", id |-> i, size |-> 0,
                           res |-> PKTTRANSFER_ERR_OK]
            /\ asserts_ok' = (asserts_ok /\ t.ok)
            /\ UNCHANGED <<segs, tx_cur, tx_frame, link, can, life, uart_ref>>

Task(i) == \E tx_is_avail \in BOOLEAN : TaskWith(i, tx_is_avail)

-----------------------------------------------------------------------------
(* SpecTx: one instance, the application sends, nothing is received *)

InitIdle ==
    /\ inst = [i \in Ids |-> FreshInst]
    /\ wire = [i \in Ids |-> <<>>]
    /\ segs = [i \in Ids |-> 0]
    /\ rx_idx = [i \in Ids |-> 0]
    /\ hw_tx = [i \in Ids |-> <<>>]
    /\ tx_cur = [i \in Ids |-> NoPayload]
    /\ tx_frame = [i \in Ids |-> <<>>]
    /\ app = [i \in Ids |-> <<>>]
    /\ last_op = [op |-> "init", id |-> 0, size |-> 0, res |-> PKTTRANSFER_ERR_OK]
    /\ asserts_ok = TRUE
    /\ can = [i \in Ids |-> NoCan]
    /\ life = [i \in Ids |-> [calls |-> 0, up |-> TRUE, again |-> FALSE]]
    /\ uart_ref = [i \in Ids |-> [inst |-> FreshInst, app |-> <<>>]]

InitTx ==
    /\ InitIdle
    /\ link = [i \in Ids |-> 0]

NextTx == Send(1) \/ Task(1)

SpecTx == InitTx /\ [][NextTx]_vars

\* SpecTxLive: the same, the main loop keeps calling the task and the
\* hardware keeps becoming available for the next byte
SpecTxLive == InitTx /\ [][NextTx]_vars /\ WF_vars(TaskWith(1, TRUE))

-----------------------------------------------------------------------------
(* SpecRx: one instance receives a stream made of frames and line noise *)

\* k ordinary bytes
Fill(k) == [j \in 1..k |-> 42]

\* payloads of the received frames: empty, every one-byte payload, and
\* ordinary payloads of every length up to one more than payload_size_max
RxPayloads == Payloads(1) \cup {Fill(k) : k \in 2..(PayloadMax + 1)}

\* the frame of each payload
FrameOf == [p \in RxPayloads |-> Frame(p)]

\* a frame that shares its leading delimiter with the frame before it
SharedFrame(p) == Tail(FrameOf[p])

\* a frame whose CRC bytes are sent high byte first
BadCrcSwapped(p) ==
    LET b == Body(p)
        n == Len(b)
    IN  <<126>> \o Stuffed(SubSeq(b, 1, n - 2) \o <<b[n], b[n - 1]>>) \o <<126>>

\* a frame whose CRC high byte is off by one
BadCrcOff(p) ==
    LET b == Body(p)
        n == Len(b)
    IN  <<126>> \o Stuffed(SubSeq(b, 1, n - 1) \o <<(b[n] + 1) % 256>>) \o <<126>>

BadCrcFrames == {BadCrcSwapped(<<42>>), BadCrcOff(<<42>>), BadCrcOff(<<126>>)}

\* a frame cut after a wrong escape sequence 0x7D x
BadEscape(x) == <<126, 42, 125, x>>

\* the same frame with the rest of it, up to its trailing delimiter
BadEscapeClosed(x) == <<126, 42, 125, x, 42, 126>>

\* second bytes that make a wrong escape sequence
WrongEscapeBytes == {42, 125, 126}

\* single bytes of line noise
NoiseBytes == {42, 93, 94, 125, 126}

\* an idle line that sends nothing but delimiters
DelimiterRun == [k \in 1..PayloadMax |-> PKTTRANSFER_FRAME_DELIMITER_BYTE]

Segments ==
    {FrameOf[p] : p \in RxPayloads}
    \cup {SharedFrame(p) : p \in RxPayloads}
    \cup BadCrcFrames
    \cup {BadEscape(x) : x \in WrongEscapeBytes}
    \cup {BadEscapeClosed(x) : x \in WrongEscapeBytes}
    \cup {<<b>> : b \in NoiseBytes}
    \cup {DelimiterRun}

\* the line delivers the next segment to the hardware of i once the
\* hardware has handed over all bytes of the segments before it
Arrive(i) ==
    \E g \in Segments :
        /\ segs[i] < MaxSegs
        /\ rx_idx[i] = Len(wire[i])
        /\ wire' = [wire EXCEPT ![i] = @ \o g]
        /\ segs' = [segs EXCEPT ![i] = @ + 1]
        /\ last_op' = [op |-> "arrive", id |-> i, size |-> Len(g),
                       res |-> PKTTRANSFER_ERR_OK]
        /\ UNCHANGED <<inst, rx_idx, hw_tx, tx_cur, tx_frame, app, link,
                       asserts_ok, can, life, uart_ref>>

InitRx ==
    /\ InitIdle
    /\ link = [i \in Ids |-> 0]

NextRx == Arrive(1) \/ Task(1)

SpecRx == InitRx /\ [][NextRx]_vars

-----------------------------------------------------------------------------
(* SpecLink: instance 1 sends to instance 2 over a lossless in-order channel *)

InitLink ==
    /\ InitIdle
    /\ link = [i \in Ids |-> IF i = 1 THEN 2 ELSE 0]

NextLink == Send(1) \/ Task(1) \/ Task(2)

SpecLink == InitLink /\ [][NextLink]_vars

-----------------------------------------------------------------------------
(* The environment of the CAN build *)

\* identifiers of CAN messages (RKTTRANSFER_TEST_CAN_ID_TX, _RX)
CanIds == {1, 2}

\* k bytes that all need an escape sequence
EscFill(k) == [j \in 1..k |-> IF j % 2 = 1 THEN 126 ELSE 125]

\* payloads the application sends in the CAN build
CanSendPayloads(I, size) ==
    IF SendTooLong(I, size) \/ SendBusy(I)
    THEN {Fill(size)}
    ELSE {Fill(size), EscFill(size)}

\* the application calls pkttransfer_send (CAN signature) on instance i; a
\* payload is accepted while fewer than cap packets have been sent
SendCanCap(i, cap) ==
    \E size \in 0..(PayloadMax + 1) : \E can_id_tx \in CanIds :
      \E payload_p \in CanSendPayloads(inst[i], size) :
        LET s == pkttransfer_send_can(inst[i], payload_p, Len(payload_p), can_id_tx)
        IN  /\ pkttransfer_is_init(inst[i])
            /\ (~SendTooLong(inst[i], size) /\ ~SendBusy(inst[i]))
                    => (inst[i].sent_packets_cnt < cap)
            /\ inst' = [inst EXCEPT ![i] = s.inst]
            /\ tx_cur' = IF s.res = PKTTRANSFER_ERR_OK
                         THEN [tx_cur EXCEPT ![i] = payload_p] ELSE tx_cur
            /\ tx_frame' = IF s.res = PKTTRANSFER_ERR_OK
                           THEN [tx_frame EXCEPT ![i] = Frame(payload_p)] ELSE tx_frame
            /\ hw_tx' = IF s.res = PKTTRANSFER_ERR_OK
                        THEN [hw_tx EXCEPT ![i] = <<>>] ELSE hw_tx
            /\ can' = IF s.res = PKTTRANSFER_ERR_OK
                      THEN [can EXCEPT ![i].tx = <<>>, ![i].id_tx = can_id_tx,
                                       ![i].id_try = can_id_tx]
                      ELSE [can EXCEPT ![i].id_try = can_id_tx]
            /\ last_op' = [op |-> "send", id |-> i, size |-> Len(payload_p),
                           res |-> s.res]
            /\ UNCHANGED <<wire, segs, rx_idx, app, link, asserts_ok, life,
                           uart_ref>>

\* sends of an application that goes on after MaxPackets packets
SendCan(i) == SendCanCap(i, MaxPackets + 1)

\* sends of an application that stops after MaxPackets packets
SendCanOnce(i) == SendCanCap(i, MaxPackets)

\* the application calls pkttransfer_set_can_id_rx on instance i
SetCanIdRx(i) ==
    \E can_id_rx \in CanIds :
        LET c == pkttransfer_set_can_id_rx(inst[i], can_id_rx)
        IN  /\ pkttransfer_is_init(inst[i])
            /\ inst' = [inst EXCEPT ![i] = c.inst]
            /\ can' = [can EXCEPT ![i].id_rx = can_id_rx]
            /\ last_op' = [op |-> "set_can_id_rx", id |-> i, size |-> 0,
                           res |-> PKTTRANSFER_ERR_OK]
            /\ asserts_ok' = (asserts_ok /\ c.ok)
            /\ UNCHANGED <<wire, segs, rx_idx, hw_tx, tx_cur, tx_frame, app,
                           link, life, uart_ref>>

\* the UART-build decoder R given the bytes of data from the k-th on, one
\* byte per task call; t is the result of the task call on data[k]
RECURSIVE RefFeed(_, _, _)
RefFeedNext(R, t, data, k) ==
    RefFeed([inst |-> t.inst, app |-> R.app \o t.cb], data, k + 1)

RefFeed(R, data, k) ==
    IF k <= Len(data)
    THEN RefFeedNext(R, pkttransfer_task(R.inst, FALSE, TRUE, data[k]), data, k)
    ELSE R

\* the bytes of a sequence of CAN messages, in order
RECURSIVE CanBytes(_)
CanBytes(msgs) ==
    IF msgs = <<>> THEN <<>> ELSE Head(msgs).data \o CanBytes(Tail(msgs))

Min(a, b) == IF a < b THEN a ELSE b

\* the main loop calls pkttransfer_task (CAN build) on instance i: the
\* hardware answers tx_is_avail, and reports a waiting message of the next
\* n bytes of the wire when n > 0.  t is the result of the call on the
\* message rx_data, sent the bytes of the messages it handed to tx_cb.
TaskCanDone(i, n, rx_data, t, sent) ==
    /\ pkttransfer_is_init(inst[i])
    /\ inst' = [inst EXCEPT ![i] = t.inst]
    /\ hw_tx' = [hw_tx EXCEPT ![i] = @ \o sent]
    /\ can' = [can EXCEPT ![i].tx = @ \o t.tx, ![i].rx_req = t.rx_id]
    /\ wire' = IF link[i] # 0
               THEN [wire EXCEPT ![link[i]] = @ \o sent] ELSE wire
    /\ rx_idx' = [rx_idx EXCEPT ![i] = @ + n]
    /\ app' = [app EXCEPT ![i] = @ \o t.cb]
    /\ uart_ref' = [uart_ref EXCEPT ![i] = RefFeed(@, rx_data, 1)]
    /\ last_op' = [op |-> "task", id |-> i, size |-> n,
                   res |-> PKTTRANSFER_ERR_OK]
    /\ asserts_ok' = (asserts_ok /\ t.ok)
    /\ UNCHANGED <<segs, tx_cur, tx_frame, link, life>>

TaskCanRun(i, n, rx_data, t) == TaskCanDone(i, n, rx_data, t, CanBytes(t.tx))

TaskCanCall(i, tx_is_avail, n, rx_data) ==
    TaskCanRun(i, n, rx_data,
               pkttransfer_task_can(inst[i], tx_is_avail, n > 0, rx_data))

TaskCanCut(i, tx_is_avail, n) ==
    TaskCanCall(i, tx_is_avail, n, SubSeq(wire[i], rx_idx[i] + 1, rx_idx[i] + n))

\* the number of bytes waiting on the wire of instance i that fit one message
CanWaiting(i) == Min(PKTTRANSFER_CAN_MGS_SIZE, Len(wire[i]) - rx_idx[i])

\* a task call where the stream is cut into messages in any way: the
\* hardware may report a message of 1 to 8 of the bytes waiting
TaskCan(i) ==
    \E tx_is_avail \in BOOLEAN : \E n \in 0..CanWaiting(i) :
        TaskCanCut(i, tx_is_avail, n)

\* a task call on a bus that is free and hands over messages whole: what
\* is waiting is reported as one message
TaskCanWhole(i) == TaskCanCut(i, TRUE, CanWaiting(i))

\* segments of a stream received over CAN: frames of plain payloads up to
\* one byte more than payload_size_max and of an escaped one, a frame that shares
\* its leading delimiter, a frame with a bad CRC, a noise byte
CanSegments ==
    {Frame(Fill(k)) : k \in 0..(PayloadMax + 1)}
    \cup {Frame(EscFill(PayloadMax)), Tail(Frame(Fill(1))),
          BadCrcSwapped(Fill(2)), <<42>>}

\* the bus queues the next segment for the hardware of i, whether or not
\* the bytes before it have been read
ArriveCan(i) ==
    \E g \in CanSegments :
        /\ segs[i] < MaxSegs
        /\ wire' = [wire EXCEPT ![i] = @ \o g]
        /\ segs' = [segs EXCEPT ![i] = @ + 1]
        /\ last_op' = [op |-> "arrive", id |-> i, size |-> Len(g),
                       res |-> PKTTRANSFER_ERR_OK]
        /\ UNCHANGED <<inst, rx_idx, hw_tx, tx_cur, tx_frame, app, link,
                       asserts_ok, can, life, uart_ref>>

\* the application calls pkttransfer_init on instance i, in whatever state
\* it is, with the configuration and the buffers it has always used
\* (life[i].again: the call repeats the lifecycle call before it)
InitCall(i) ==
    LET I == pkttransfer_init_inst(inst[i], PayloadMax)
    IN  /\ life[i].calls < MaxLife
        /\ inst' = [inst EXCEPT ![i] = I]
        /\ life' = [life EXCEPT ![i] = [calls |-> @.calls + 1, up |-> TRUE,
                                         again |-> @.up]]
        /\ tx_cur' = [tx_cur EXCEPT ![i] = NoPayload]
        /\ tx_frame' = [tx_frame EXCEPT ![i] = <<>>]
        /\ hw_tx' = [hw_tx EXCEPT ![i] = <<>>]
        /\ can' = [can EXCEPT ![i] = NoCan]
        /\ uart_ref' = [uart_ref EXCEPT ![i] = [inst |-> I, app |-> app[i]]]
        /\ last_op' = [op |-> "init", id |-> i, size |-> 0,
                       res |-> PKTTRANSFER_ERR_OK]
        /\ UNCHANGED <<wire, segs, rx_idx, app, link, asserts_ok>>

\* the application calls pkttransfer_deinit on instance i, in whatever state
\* it is
DeinitCall(i) ==
    LET I == pkttransfer_deinit(inst[i])
    IN  /\ life[i].calls < MaxLife
        /\ inst' = [inst EXCEPT ![i] = I]
        /\ life' = [life EXCEPT ![i] = [calls |-> @.calls + 1, up |-> FALSE,
                                         again |-> ~@.up]]
        /\ tx_cur' = [tx_cur EXCEPT ![i] = NoPayload]
        /\ tx_frame' = [tx_frame EXCEPT ![i] = <<>>]
        /\ hw_tx' = [hw_tx EXCEPT ![i] = <<>>]
        /\ can' = [can EXCEPT ![i] = NoCan]
        /\ uart_ref' = [uart_ref EXCEPT ![i] = [inst |-> I, app |-> app[i]]]
        /\ last_op' = [op |-> "deinit", id |-> i, size |-> 0,
                       res |-> PKTTRANSFER_ERR_OK]
        /\ UNCHANGED <<wire, segs, rx_idx, app, link, asserts_ok>>

-----------------------------------------------------------------------------
(* SpecCanTx: one instance of the CAN build, the application sends *)

NextCanTx == SendCan(1) \/ SetCanIdRx(1) \/ TaskCan(1)

SpecCanTx == InitTx /\ [][NextCanTx]_vars

-----------------------------------------------------------------------------
(* SpecCanRx: one instance of the CAN build receives a stream cut into *)
(* messages                                                             *)

NextCanRx == ArriveCan(1) \/ SetCanIdRx(1) \/ TaskCan(1)

SpecCanRx == InitRx /\ [][NextCanRx]_vars

-----------------------------------------------------------------------------
(* SpecLife: one instance of the CAN build, wired to itself, from the    *)
(* zeroed static instance on: init, deinit, send, set_can_id_rx and task *)

InitLife ==
    /\ inst = [i \in Ids |-> Memset0(FreshInst)]
    /\ wire = [i \in Ids |-> <<>>]
    /\ segs = [i \in Ids |-> 0]
    /\ rx_idx = [i \in Ids |-> 0]
    /\ hw_tx = [i \in Ids |-> <<>>]
    /\ tx_cur = [i \in Ids |-> NoPayload]
    /\ tx_frame = [i \in Ids |-> <<>>]
    /\ app = [i \in Ids |-> <<>>]
    /\ last_op = [op |-> "start", id |-> 0, size |-> 0, res |-> PKTTRANSFER_ERR_OK]
    /\ asserts_ok = TRUE
    /\ can = [i \in Ids |-> NoCan]
    /\ life = [i \in Ids |-> [calls |-> 0, up |-> FALSE, again |-> FALSE]]
    /\ uart_ref = [i \in Ids |-> [inst |-> Memset0(FreshInst), app |-> <<>>]]
    /\ link = [i \in Ids |-> IF i = 1 THEN 1 ELSE 0]

NextLife ==
    InitCall(1) \/ DeinitCall(1) \/ SendCanOnce(1) \/ SetCanIdRx(1)
        \/ TaskCanWhole(1)

SpecLife == InitLife /\ [][NextLife]_vars

-----------------------------------------------------------------------------
(* Claims *)

\* C1: UART, every accepted payload of 1..payload_max bytes: the bytes handed
\* to tx_cb up to tx_size = 0 are exactly 0x7E, stuffed(p . CRC_LO . CRC_HI),
\* 0x7E: always a prefix of the frame, the whole frame exactly when tx_size
\* is back to 0, and nothing after it.
C1_UartFrameExact ==
    \A i \in Ids :
        (tx_cur[i] # NoPayload /\ Len(tx_cur[i]) >= 1) =>
            /\ IsPrefix(hw_tx[i], tx_frame[i])
            /\ (inst[i].tx_size = 0) <=> (hw_tx[i] = tx_frame[i])

\* C1 witness: payload {2A} went out as 7E 2A 20 7D 5E 7E (CRC 0x7E20 stuffed)
\* and the instance is idle again
C1_Witness ==
    /\ tx_cur[1] = <<42>>
    /\ hw_tx[1] = <<126, 42, 32, 125, 94, 126>>
    /\ inst[1].tx_size = 0

\* a frame accepted by send on i whose trailing delimiter has not yet been
\* handed to tx_cb
InFlight(i) == tx_cur[i] # NoPayload /\ hw_tx[i] # tx_frame[i]

\* the step is a call of pkttransfer_send on instance i
SendStep(i) == last_op'.op = "send" /\ last_op'.id = i

\* C4: on an initialized, TX-idle instance, send with size = payload_max
\* returns OK, and send with any size above payload_max returns TX_OVF.
C4_SizeLimit ==
    [][\A i \in Ids :
        (SendStep(i) /\ pkttransfer_is_init(inst[i]) /\ inst[i].tx_size = 0) =>
            /\ (last_op'.size = inst[i].payload_size_max)
                    => (last_op'.res = PKTTRANSFER_ERR_OK)
            /\ (last_op'.size > inst[i].payload_size_max)
                    => (last_op'.res = PKTTRANSFER_ERR_TX_OVF)]_vars

\* C4 witness: a payload of payload_max + 1 bytes was refused by an idle
\* instance that had accepted a payload of payload_max bytes before
C4_Witness ==
    /\ last_op = [op |-> "send", id |-> 1, size |-> PayloadMax + 1,
                  res |-> PKTTRANSFER_ERR_TX_OVF]
    /\ inst[1].tx_size = 0
    /\ Len(tx_cur[1]) = PayloadMax
    /\ inst[1].sent_packets_cnt = 1

\* C5: a send of legal length returns OK iff tx_size = 0 before the call, and
\* from the accepted send until the task call that hands the trailing 0x7E to
\* tx_cb every send returns TX_OVF.
C5_SingleSlot ==
    [][\A i \in Ids :
        SendStep(i) =>
            /\ (last_op'.size <= inst[i].payload_size_max)
                    => ((last_op'.res = PKTTRANSFER_ERR_OK) <=> (inst[i].tx_size = 0))
            /\ InFlight(i) => (last_op'.res = PKTTRANSFER_ERR_TX_OVF)]_vars

\* C5 witness: a send of one byte was refused after the whole body of the
\* frame in flight had been handed to tx_cb, the trailing delimiter being
\* the only byte left
C5_Witness ==
    /\ last_op = [op |-> "send", id |-> 1, size |-> 1,
                  res |-> PKTTRANSFER_ERR_TX_OVF]
    /\ tx_cur[1] # NoPayload
    /\ Len(hw_tx[1]) = Len(tx_frame[1]) - 1

\* C6: a send that returns TX_OVF changes nothing: the instance (state
\* machines, sizes, counters, both buffers) and what the hardware and the
\* application have seen are the same before and after the call.
C6_RefusedSendNoEffect ==
    [][\A i \in Ids :
        (SendStep(i) /\ last_op'.res = PKTTRANSFER_ERR_TX_OVF) =>
            /\ inst' = inst
            /\ hw_tx' = hw_tx
            /\ wire' = wire /\ rx_idx' = rx_idx
            /\ app' = app]_vars

\* C6 witness: a send of legal length was refused in the middle of an escape
\* sequence of the frame in flight
C6_Witness ==
    /\ last_op.op = "send"
    /\ last_op.res = PKTTRANSFER_ERR_TX_OVF
    /\ last_op.size <= PayloadMax
    /\ inst[1].tx_state = PKTTRANSFER_STATE_ENCODED_BYTE
    /\ inst[1].sent_size > 0

-----------------------------------------------------------------------------
(* Claims about the receiving side *)

\* the step is a call of pkttransfer_task on instance i in which rx_cb
\* hands over the next byte of the wire
RxStep(i) ==
    /\ last_op'.op = "task"
    /\ last_op'.id = i
    /\ rx_idx'[i] = rx_idx[i] + 1

\* the byte rx_cb hands over in an RxStep
RxByte(i) == wire[i][rx_idx[i] + 1]

\* the bytes the decoder of i has buffered for the frame in progress
RxBuffered(i) == CbPayload(inst[i].buf_rx, inst[i].rx_size)

\* C2: a freshly initialized decoder fed the frame of a payload p with
\* 1 <= |p| <= payload_max calls app_pkt_cb exactly once, with p: no call is
\* made before the trailing delimiter, and the one call is made at it.
\* (The empty payload is left out: app_pkt_cb is documented to receive
\* sizes from 1, and process_frame drops a frame that holds only a CRC.)
C2_FreshDecoderDelivers ==
    \A p \in RxPayloads :
        (/\ Len(p) >= 1
         /\ Len(p) <= PayloadMax
         /\ IsPrefix(FrameOf[p], wire[1])) =>
            /\ (rx_idx[1] < Len(FrameOf[p])) => (app[1] = <<>>)
            /\ (rx_idx[1] = Len(FrameOf[p])) => (app[1] = <<p>>)

\* C3: once the frame of an accepted payload p, 1 <= |p| <= payload_max, has
\* left the sender completely and the receiver has read every byte of it,
\* the receiver's app_pkt_cb has been called exactly once, with p.
C3_RoundTrip ==
    (/\ tx_cur[1] # NoPayload
     /\ Len(tx_cur[1]) >= 1
     /\ ~InFlight(1)
     /\ rx_idx[2] = Len(wire[2]))
        => (app[2] = <<tx_cur[1]>>)

\* frames aborted by a wrong escape sequence
AbortedFrames ==
    {BadEscape(x) : x \in WrongEscapeBytes}
    \cup {BadEscapeClosed(x) : x \in WrongEscapeBytes}

\* C7: after the decoder has aborted a frame on a wrong escape sequence,
\* a later well-formed frame is delivered.  The frames are those a fresh
\* decoder delivers, 1 <= |p| <= payload_max - 2, so that the abort is the
\* only thing that stands between the frame and the application.
C7_ResyncAfterAbort ==
    \A g \in AbortedFrames : \A p \in RxPayloads :
        (/\ Len(p) >= 1
         /\ Len(p) + PKTTRANSFER_FRAME_CRC_SIZE <= PayloadMax
         /\ wire[1] = g \o FrameOf[p]
         /\ rx_idx[1] = Len(wire[1]))
            => (app[1] = <<p>>)

\* every pair of payloads with the bytes of their two frames sharing one
\* delimiter
SharedPairs ==
    {[p1 |-> pp[1], p2 |-> pp[2],
      bytes |-> FrameOf[pp[1]] \o SharedFrame(pp[2])] :
        pp \in RxPayloads \X RxPayloads}

\* the decoder has read every byte of the wire
AllRead == rx_idx[1] = Len(wire[1])

\* C8 as stated: two well-formed frames sharing one delimiter are both
\* delivered, in order.
C8_SharedDelimiterBoth ==
    AllRead =>
        \A sp \in SharedPairs :
            (Len(sp.p1) >= 1 /\ Len(sp.p2) >= 1 /\ wire[1] = sp.bytes)
                => (app[1] = <<sp.p1, sp.p2>>)

\* C8 amended: of two well-formed frames sharing one delimiter at most one
\* is delivered.  When the first is delivered the shared delimiter only
\* closes it: the body of the second is skipped in Delimiter state and its
\* trailing delimiter is counted as a start of frame, so the decoder ends
\* in Byte state with an empty buffer, two starts of frame and one packet.
C8_SharedDelimiterOnlyOne ==
    AllRead =>
        \A sp \in SharedPairs :
            (Len(sp.p1) >= 1 /\ Len(sp.p2) >= 1 /\ wire[1] = sp.bytes) =>
                /\ Len(app[1]) <= 1
                /\ (Len(sp.p1) + PKTTRANSFER_FRAME_CRC_SIZE <= PayloadMax) =>
                    /\ app[1] = <<sp.p1>>
                    /\ inst[1].rx_state = PKTTRANSFER_STATE_BYTE
                    /\ inst[1].rx_size = 0
                    /\ inst[1].sof_detections_cnt = 2
                    /\ inst[1].received_packets_cnt = 1

\* C8 witness: the frames of {0x2A} and {0x7E} sharing a delimiter were
\* read, and only {0x2A} reached the application
C8_Witness ==
    /\ AllRead
    /\ wire[1] = Frame(<<42>>) \o Tail(Frame(<<126>>))
    /\ app[1] = <<(<<42>>)>>
    /\ inst[1].rx_state = PKTTRANSFER_STATE_BYTE

\* C9: when the closing delimiter of a frame arrives and the last two
\* buffered bytes are not the CRC of the bytes before them, low byte first,
\* app_pkt_cb is not called and received_packets_cnt does not change.
C9_BadCrcDiscarded ==
    [][\A i \in Ids :
        (/\ RxStep(i)
         /\ RxByte(i) = PKTTRANSFER_FRAME_DELIMITER_BYTE
         /\ inst[i].rx_state = PKTTRANSFER_STATE_BYTE
         /\ inst[i].rx_size >= PKTTRANSFER_FRAME_CRC_SIZE
         /\ RxBuffered(i) #
                Body(SubSeq(RxBuffered(i), 1,
                            inst[i].rx_size - PKTTRANSFER_FRAME_CRC_SIZE)))
            => /\ app'[i] = app[i]
               /\ inst'[i].received_packets_cnt = inst[i].received_packets_cnt
               /\ inst'[i].rx_size = 0
               /\ inst'[i].rx_state = PKTTRANSFER_STATE_DELIMITER]_vars

\* C9 witness: the frame of {0x7E} with its CRC high byte off by one was
\* read to its closing delimiter and nothing reached the application
C9_Witness ==
    /\ wire[1] = BadCrcOff(<<126>>)
    /\ rx_idx[1] = Len(wire[1])
    /\ app[1] = <<>>
    /\ inst[1].sof_detections_cnt = 1
    /\ inst[1].received_packets_cnt = 0
    /\ inst[1].rx_state = PKTTRANSFER_STATE_DELIMITER

\* C10: when the byte after an escape byte is neither 0x5E nor 0x5D, rx_size
\* becomes 0, rx_state becomes Delimiter, app_pkt_cb is not called and
\* received_packets_cnt does not change.
C10_WrongEscapeDrops ==
    [][\A i \in Ids :
        (/\ RxStep(i)
         /\ inst[i].rx_state = PKTTRANSFER_STATE_ENCODED_BYTE
         /\ RxByte(i) # PKTTRANSFER_FRAME_ENCODED_DELIMITER_BYTE
         /\ RxByte(i) # PKTTRANSFER_FRAME_ENCODED_ESCAPE_BYTE)
            => /\ inst'[i].rx_size = 0
               /\ inst'[i].rx_state = PKTTRANSFER_STATE_DELIMITER
               /\ app'[i] = app[i]
               /\ inst'[i].received_packets_cnt = inst[i].received_packets_cnt]_vars

\* C10 witness: 0x7E 0x2A 0x7D 0x7D was read: the second escape byte dropped
\* the frame in progress
C10_Witness ==
    /\ wire[1] = BadEscape(125)
    /\ rx_idx[1] = Len(wire[1])
    /\ inst[1].rx_state = PKTTRANSFER_STATE_DELIMITER
    /\ inst[1].rx_size = 0
    /\ inst[1].sof_detections_cnt = 1
    /\ app[1] = <<>>

\* the step is a call of pkttransfer_task on instance i
TaskStep(i) == last_op'.op = "task" /\ last_op'.id = i

\* the step reads the closing delimiter of a frame in progress on i
RxCloseStep(i) ==
    /\ RxStep(i)
    /\ RxByte(i) = PKTTRANSFER_FRAME_DELIMITER_BYTE
    /\ inst[i].rx_state = PKTTRANSFER_STATE_BYTE

\* the payload part of the bytes buffered on i
RxBufferedPayload(i) ==
    SubSeq(RxBuffered(i), 1, inst[i].rx_size - PKTTRANSFER_FRAME_CRC_SIZE)

\* C11: app_pkt_cb is called only in the task call that reads the closing
\* delimiter of a frame, with the payload buffered for that frame, and a
\* frame that is good when its closing delimiter is read is handed over in
\* that very call; the payloads therefore reach the application one at a
\* time, in the order in which the closing delimiters are read.
C11_CallbackAtClosingDelimiter ==
    [][\A i \in Ids :
        /\ (app'[i] # app[i]) =>
              /\ RxCloseStep(i)
              /\ app'[i] = Append(app[i], RxBufferedPayload(i))
        /\ (/\ RxCloseStep(i)
            /\ inst[i].rx_size > PKTTRANSFER_FRAME_CRC_SIZE
            /\ RxBuffered(i) = Body(RxBufferedPayload(i)))
              => (app'[i] = Append(app[i], RxBufferedPayload(i)))]_vars

\* C11 witness: the frames of {0x2A} and of {0x7E} were read one after the
\* other and the application has the two payloads in that order
C11_Witness ==
    /\ wire[1] = Frame(<<42>>) \o Frame(<<126>>)
    /\ rx_idx[1] = Len(wire[1])
    /\ app[1] = <<(<<42>>), (<<126>>)>>
    /\ inst[1].received_packets_cnt = 2

\* C19: sof_detections_cnt, received_packets_cnt and sent_packets_cnt do not
\* decrease across a task call.
C19_CountersMonotonic ==
    [][\A i \in Ids :
        TaskStep(i) =>
            /\ inst'[i].sof_detections_cnt >= inst[i].sof_detections_cnt
            /\ inst'[i].received_packets_cnt >= inst[i].received_packets_cnt
            /\ inst'[i].sent_packets_cnt >= inst[i].sent_packets_cnt]_vars

\* C19 witness: after task calls on both ends of the link the sender has
\* counted a sent packet and the receiver a start of frame and a packet
C19_Witness ==
    /\ last_op.op = "task"
    /\ inst[1].sent_packets_cnt = 1
    /\ inst[2].sof_detections_cnt >= 1
    /\ inst[2].received_packets_cnt = 1

\* C20: every call of app_pkt_cb has a size from 1 to payload_size_max.
C20_CallbackSizeInRange ==
    \A i \in Ids : \A k \in 1..Len(app[i]) :
        /\ Len(app[i][k]) >= 1
        /\ Len(app[i][k]) <= inst[i].payload_size_max

\* C20 witness: the frame of the empty payload (0x7E 0x00 0x00 0x7E) and
\* the frame of {0x2A} were read; app_pkt_cb was called for the second only
C20_Witness ==
    /\ wire[1] = Frame(<<>>) \o Frame(<<42>>)
    /\ rx_idx[1] = Len(wire[1])
    /\ app[1] = <<(<<42>>)>>

\* C15: when the task keeps being called with the hardware available, every
\* accepted send completes: tx_size returns to 0, tx_state to Delimiter, and
\* sent_packets_cnt is one more than when the packet was in flight.
C15_TransmitCompletes ==
    /\ (inst[1].tx_size # 0)
            ~> (inst[1].tx_size = 0 /\ inst[1].tx_state = PKTTRANSFER_STATE_DELIMITER)
    /\ [][inst[1].tx_size # 0 =>
            inst'[1].sent_packets_cnt =
                inst[1].sent_packets_cnt + (IF inst'[1].tx_size = 0 THEN 1 ELSE 0)]_vars

\* C15 witness: the packet {0x7D, 0x7E} has completed
C15_Witness ==
    /\ tx_cur[1] = <<125, 126>>
    /\ last_op.op = "task"
    /\ inst[1].tx_size = 0
    /\ inst[1].tx_state = PKTTRANSFER_STATE_DELIMITER
    /\ inst[1].sent_packets_cnt = 1

\* the bytes the UART build hands to tx_cb, one per task call, from instance I
\* until nothing is left for sending
RECURSIVE UartDrain(_, _)
UartDrain(I, out) ==
    LET t == pkttransfer_task(I, TRUE, FALSE, 0)
    IN  IF t.tx = <<>> THEN out ELSE UartDrain(t.inst, out \o t.tx)

\* the byte sequence the UART build emits for a payload
UartEmits(payload_p) ==
    UartDrain(pkttransfer_send(FreshInst, payload_p, Len(payload_p)).inst, <<>>)

\* C12: in the CAN build every message handed to tx_cb for an accepted
\* payload has 1 to 8 data bytes, the messages sent since the payload was
\* accepted hold bytes of that packet only, and once the packet is out their
\* data, one after the other, are the bytes the UART build emits for the same
\* payload.
C12_CanMessagesCarryUartBytes ==
    (tx_cur[1] # NoPayload) =>
        LET msgs == can[1].tx
            uart == UartEmits(tx_cur[1])
        IN  /\ \A k \in DOMAIN msgs :
                    Len(msgs[k].data) \in 1..PKTTRANSFER_CAN_MGS_SIZE
            /\ IsPrefix(CanBytes(msgs), uart)
            /\ (inst[1].tx_size = 0) => (CanBytes(msgs) = uart)

\* the second packet went out as a full message and a shorter one
C12_Witness ==
    /\ inst[1].sent_packets_cnt = 2
    /\ inst[1].tx_size = 0
    /\ Len(can[1].tx) = 2
    /\ Len(can[1].tx[1].data) = PKTTRANSFER_CAN_MGS_SIZE
    /\ Len(can[1].tx[2].data) \in 1..(PKTTRANSFER_CAN_MGS_SIZE - 1)
    /\ CanBytes(can[1].tx) = UartEmits(tx_cur[1])

\* C13: in the CAN build every message sent for a packet carries the
\* identifier given to the send call that was accepted for that packet,
\* whatever send (accepted or refused), set_can_id_rx and task calls are made.
C13_MessagesCarrySendId ==
    \A k \in DOMAIN can[1].tx : can[1].tx[k].can_id = can[1].id_tx

\* a message of a packet in flight went out with the identifier of its send
\* after a refused send and set_can_id_rx were given the other identifier
C13_Witness ==
    /\ inst[1].tx_size # 0
    /\ Len(can[1].tx) = 1
    /\ can[1].tx[1].can_id = 2
    /\ can[1].id_try = 1
    /\ can[1].id_rx = 1
    /\ last_op.op = "task"

\* the receiver state of instance I: state machine, buffered bytes, counters
RxSide(I) ==
    [rx_state |-> I.rx_state, rx_size |-> I.rx_size, buf_rx |-> I.buf_rx,
     sof_detections_cnt |-> I.sof_detections_cnt,
     received_packets_cnt |-> I.received_packets_cnt]

\* C14: in the CAN build a task call that finds rx_is_ready true calls rx_cb
\* once, with the identifier last given to set_can_id_rx, and a call that finds
\* it false does not call it; after every task call the payloads delivered and
\* the receiver state are those of the UART build fed the same bytes one per
\* task call, however the stream is cut into messages of 1 to 8 bytes.
C14_CanReceiveAsUart ==
    [][TaskStep(1) =>
        /\ can'[1].rx_req = IF last_op'.size > 0 THEN <<can[1].id_rx>> ELSE <<>>
        /\ rx_idx'[1] = rx_idx[1] + last_op'.size
        /\ app'[1] = uart_ref'[1].app
        /\ RxSide(inst'[1]) = RxSide(uart_ref'[1].inst)]_vars

\* two frames of 6 bytes were read as a message of 8 bytes and one of 4,
\* requested with the identifier set_can_id_rx installed, and both payloads
\* were delivered
C14_Witness ==
    /\ wire[1] = Frame(Fill(1)) \o Frame(Fill(1))
    /\ rx_idx[1] = Len(wire[1])
    /\ last_op = [op |-> "task", id |-> 1, size |-> 4, res |-> PKTTRANSFER_ERR_OK]
    /\ can[1].id_rx = 2
    /\ can[1].rx_req = <<2>>
    /\ app[1] = <<Fill(1), Fill(1)>>

\* a step that is a call of pkttransfer_init / pkttransfer_deinit on instance i
InitStep(i) == last_op'.op = "init" /\ last_op'.id = i

DeinitStep(i) == last_op'.op = "deinit" /\ last_op'.id = i

\* the runtime state of instance I is zero
StateZero(I) ==
    /\ I.tx_state = PKTTRANSFER_STATE_DELIMITER
    /\ I.tx_size = 0
    /\ I.sent_size = 0
    /\ I.rx_state = PKTTRANSFER_STATE_DELIMITER
    /\ I.rx_size = 0
    /\ I.sof_detections_cnt = 0
    /\ I.received_packets_cnt = 0
    /\ I.sent_packets_cnt = 0
    /\ I.can_id_rx = 0
    /\ I.can_id_tx = 0

\* every byte of instance I is zero
InstZero(I) ==
    /\ StateZero(I)
    /\ I.hw_itf = 0
    /\ I.app_itf = 0
    /\ I.payload_size_max = 0
    /\ I.buf_tx_p = 0
    /\ I.buf_rx_p = 0

\* C16: after pkttransfer_init on an instance in any state, is_init is true
\* and the runtime state is zero (both state machines at Delimiter, sizes,
\* counters and CAN identifiers 0); and at all times is_init is true exactly
\* when the stored payload_size_max is not 0, which is after init and not
\* after deinit.
C16_InitZeroesState ==
    /\ [][InitStep(1) => (pkttransfer_is_init(inst'[1]) /\ StateZero(inst'[1]))]_vars
    /\ [](/\ pkttransfer_is_init(inst[1]) = (inst[1].payload_size_max # 0)
          /\ pkttransfer_is_init(inst[1]) = life[1].up)

\* init was called on an instance that deinit had zeroed
C16_Witness ==
    /\ last_op.op = "init"
    /\ life[1] = [calls |-> 2, up |-> TRUE, again |-> FALSE]
    /\ pkttransfer_is_init(inst[1])
    /\ StateZero(inst[1])

\* C17: pkttransfer_deinit on an initialized or on a deinitialized instance
\* leaves is_init false and the instance all zero; applied to a deinitialized
\* instance it changes nothing, so deinit twice is deinit once.
C17_DeinitZeroesInstance ==
    [][DeinitStep(1) =>
        /\ ~pkttransfer_is_init(inst'[1])
        /\ InstZero(inst'[1])
        /\ pkttransfer_deinit(inst'[1]) = inst'[1]
        /\ (~pkttransfer_is_init(inst[1])) => (inst'[1] = inst[1])]_vars

\* deinit was called twice in a row
C17_Witness ==
    /\ last_op.op = "deinit"
    /\ life[1] = [calls |-> 2, up |-> FALSE, again |-> TRUE]
    /\ InstZero(inst[1])

\* C18: pkttransfer_init on an instance in any reachable state leaves the
\* instance that init produces on a fresh one with the same configuration and
\* buffers; nothing of the prior state is kept.
C18_ReinitAsFresh ==
    [][InitStep(1) =>
        inst'[1] = pkttransfer_init(PayloadMax, inst[1].buf_tx, inst[1].buf_rx)]_vars

\* init was called again when the first message of a longer frame had been
\* sent (transmission in flight, can_id_tx set) and read back (partial frame
\* buffered, sof_detections_cnt 1)
C18_Witness ==
    /\ last_op.op = "init"
    /\ life[1] = [calls |-> 2, up |-> TRUE, again |-> TRUE]
    /\ Len(wire[1]) = PKTTRANSFER_CAN_MGS_SIZE
    /\ Head(wire[1]) = 126
    /\ rx_idx[1] = Len(wire[1])
    /\ app[1] = <<>>
    /\ inst[1] = pkttransfer_init(PayloadMax, inst[1].buf_tx, inst[1].buf_rx)

-----------------------------------------------------------------------------
(* SpecCrc: the application calls pkttransfer_crc16 on a buffer of its own *)

\* pkttransfer_test_crc_data: the digits "123456789"
CrcCheckData == [k \in 1..9 |-> 48 + k]

\* bytes of the buffers handed to pkttransfer_crc16
CrcBytes == {0, 49, 126, 255}

\* the buffers: the check string and every buffer of CrcBytes that a payload
\* can be
CrcInputs == {CrcCheckData} \cup UNION {[1..k -> CrcBytes] : k \in 0..PayloadMax}

\* tx_cur[1] is the buffer the application holds
InitCrc ==
    /\ inst = [i \in Ids |-> FreshInst]
    /\ wire = [i \in Ids |-> <<>>]
    /\ segs = [i \in Ids |-> 0]
    /\ rx_idx = [i \in Ids |-> 0]
    /\ hw_tx = [i \in Ids |-> <<>>]
    /\ \E data \in CrcInputs : tx_cur = [i \in Ids |-> IF i = 1 THEN data ELSE NoPayload]
    /\ tx_frame = [i \in Ids |-> <<>>]
    /\ app = [i \in Ids |-> <<>>]
    /\ last_op = [op |-> "init", id |-> 0, size |-> 0, res |-> PKTTRANSFER_ERR_OK]
    /\ asserts_ok = TRUE
    /\ can = [i \in Ids |-> NoCan]
    /\ life = [i \in Ids |-> [calls |-> 0, up |-> TRUE, again |-> FALSE]]
    /\ uart_ref = [i \in Ids |-> [inst |-> FreshInst, app |-> <<>>]]
    /\ link = [i \in Ids |-> 0]

\* the application calls pkttransfer_crc16 on its buffer; last_op.res is the
\* value returned
CrcCall ==
    /\ last_op.op # "crc16"
    /\ last_op' = [op |-> "crc16", id |-> 0, size |-> Len(tx_cur[1]),
                   res |-> pkttransfer_crc16(ToBuf(tx_cur[1]), Len(tx_cur[1]))]
    /\ UNCHANGED <<inst, wire, segs, rx_idx, hw_tx, tx_cur, tx_frame, app, link,
                   asserts_ok, can, life, uart_ref>>

NextCrc == CrcCall

SpecCrc == InitCrc /\ [][NextCrc]_vars

\* CRC-16/X-25 as it is defined: the register shifted right n times, 0x8408
\* XORed in whenever a 1 is shifted out
RECURSIVE X25Bits(_, _)
X25Bits(reg, n) ==
    IF n = 0 THEN reg
    ELSE IF reg % 2 = 1
    THEN X25Bits(XorBits(reg \div 2, 33800, 16), n - 1)
    ELSE X25Bits(reg \div 2, n - 1)

\* the register after the bytes of s, each XORed into its low byte
RECURSIVE X25Reg(_, _)
X25Reg(s, reg) ==
    IF s = <<>> THEN reg
    ELSE IF reg \in 0..65535
    THEN X25Reg(Tail(s), X25Bits(XorBits(reg, Head(s), 16), 8))
    ELSE -1

\* register 0xFFFF at the start, final XOR 0xFFFF
CrcX25(s) == XorBits(X25Reg(s, 65535), 65535, 16)

\* C22: pkttransfer_crc16 is CRC-16/X-25 modulo 2^16: of "123456789" it is
\* 0x906E, of {0x00} it is 0xF078, and the frame of a payload carries its low
\* byte before its high byte ({00} is sent as 7E 00 78 F0 7E).
C22_Crc16IsX25 ==
    (last_op.op = "crc16") =>
        LET data == tx_cur[1]
            crc  == last_op.res
        IN  /\ crc \in 0..65535
            /\ crc = CrcX25(data)
            /\ (data = CrcCheckData) => (crc = 36974)
            /\ (data = <<0>>) =>
                    (crc = 61560 /\ UartEmits(data) = <<126, 0, 120, 240, 126>>)
            /\ (Len(data) <= PayloadMax) =>
                    (UartEmits(data) =
                        <<126>> \o Stuffed(data \o <<crc % 256, crc \div 256>>)
                                \o <<126>>)

\* the CRC of the check string has been computed
C22_Witness ==
    /\ tx_cur[1] = CrcCheckData
    /\ last_op = [op |-> "crc16", id |-> 0, size |-> 9, res |-> 36974]

-----------------------------------------------------------------------------
(* Invariants and steps of the transmitting side *)

\* C23: between the operations on an initialized instance,
\* sent_size <= tx_size <= payload_size_max + 2.
C23_TxSizesInRange ==
    pkttransfer_is_init(inst[1]) =>
        /\ inst[1].sent_size <= inst[1].tx_size
        /\ inst[1].tx_size <= inst[1].payload_size_max + PKTTRANSFER_FRAME_CRC_SIZE

\* the payload and the CRC of a frame of the greatest length have been handed
\* to tx_cb, the trailing delimiter has not
C23_Witness ==
    /\ last_op.op = "task"
    /\ inst[1].tx_size = PayloadMax + PKTTRANSFER_FRAME_CRC_SIZE
    /\ inst[1].sent_size = inst[1].tx_size

\* C24: between operations tx_size = 0 implies tx_state = Delimiter and
\* sent_size = 0; an accepted send finds and leaves tx_state = Delimiter, and
\* the first byte handed to tx_cb after it is the leading 0x7E.
C24_IdleEncoderAtDelimiter ==
    /\ []((inst[1].tx_size = 0) =>
            (/\ inst[1].tx_state = PKTTRANSFER_STATE_DELIMITER
             /\ inst[1].sent_size = 0))
    /\ [][(SendStep(1) /\ last_op'.res = PKTTRANSFER_ERR_OK) =>
            (/\ inst[1].tx_state = PKTTRANSFER_STATE_DELIMITER
             /\ inst'[1].tx_state = PKTTRANSFER_STATE_DELIMITER)]_vars
    /\ [][(TaskStep(1) /\ hw_tx[1] = <<>> /\ hw_tx'[1] # <<>>) =>
            (hw_tx'[1] = <<PKTTRANSFER_FRAME_DELIMITER_BYTE>>)]_vars

\* the encoder is idle again after the whole frame of a payload went out
C24_Witness ==
    /\ tx_cur[1] # NoPayload
    /\ hw_tx[1] = tx_frame[1]
    /\ inst[1].tx_size = 0
    /\ inst[1].sent_size = 0
    /\ inst[1].tx_state = PKTTRANSFER_STATE_DELIMITER

\* the step ends a frame for the encoder of i: sent_packets_cnt changes, or
\* tx_size or sent_size goes back to 0
TxDoneStep(i) ==
    \/ inst'[i].sent_packets_cnt # inst[i].sent_packets_cnt
    \/ (inst[i].tx_size # 0 /\ inst'[i].tx_size = 0)
    \/ (inst[i].sent_size # 0 /\ inst'[i].sent_size = 0)

\* C30: sent_packets_cnt is incremented and tx_size and sent_size go back to
\* 0 only in the task call that hands the trailing 0x7E to tx_cb, all three at
\* once, and only when every byte of the payload and both CRC bytes have been
\* sent; the counter does not change while a byte of the buffer is unsent.
C30_CompletionWithTrailingDelimiter ==
    [][/\ TxDoneStep(1) =>
            (/\ TaskStep(1)
             /\ inst[1].sent_size = inst[1].tx_size
             /\ hw_tx'[1] = hw_tx[1] \o <<PKTTRANSFER_FRAME_DELIMITER_BYTE>>
             /\ hw_tx'[1] = tx_frame[1]
             /\ inst'[1].sent_packets_cnt = inst[1].sent_packets_cnt + 1
             /\ inst'[1].tx_size = 0
             /\ inst'[1].sent_size = 0)
       /\ (inst[1].sent_size < inst[1].tx_size) =>
            (inst'[1].sent_packets_cnt = inst[1].sent_packets_cnt)]_vars

\* the frame of a payload that ends in an escaped byte has just been completed
C30_Witness ==
    /\ last_op.op = "task"
    /\ tx_cur[1] = <<42, 126>>
    /\ hw_tx[1] = tx_frame[1]
    /\ inst[1].sent_packets_cnt = 1
    /\ inst[1].tx_size = 0
    /\ inst[1].sent_size = 0

-----------------------------------------------------------------------------
(* UART hardware looped back on itself: what the task asks of the hardware *)

\* the line the receiver of instance i reads from once the bytes tx of this
\* task call are on it: tx_cb is called before rx_is_ready_cb, so a looped
\* back byte can be ready in the call that sent it
HwLine(i, tx) == IF link[i] = i THEN wire[i] \o tx ELSE wire[i]

\* the state after a task call with result t; last_op keeps the answers of the
\* hardware predicates, the callbacks called, in order, and the value of
\* received_packets_cnt that app_pkt_cb saw
TaskHwDone(i, tx_is_avail, rx_is_ready, t) ==
    /\ inst' = [inst EXCEPT ![i] = t.inst]
    /\ hw_tx' = [hw_tx EXCEPT ![i] = @ \o t.tx]
    /\ wire' = IF link[i] # 0
               THEN [wire EXCEPT ![link[i]] = @ \o t.tx] ELSE wire
    /\ rx_idx' = IF t.rx THEN [rx_idx EXCEPT ![i] = @ + 1] ELSE rx_idx
    /\ app' = [app EXCEPT ![i] = @ \o t.cb]
    /\ last_op' = [op |-> "task", id |-> i, size |-> 0,
                   res |-> PKTTRANSFER_ERR_OK,
                   avail |-> tx_is_avail, ready |-> rx_is_ready, hw |-> t.hw,
                   seen |-> t.seen]
    /\ asserts_ok' = (asserts_ok /\ t.ok)
    /\ UNCHANGED <<segs, tx_cur, tx_frame, link, can, life, uart_ref>>

TaskHwRx(i, tx_is_avail, rx_is_ready, line) ==
    TaskHwDone(i, tx_is_avail, rx_is_ready,
               pkttransfer_task(inst[i], tx_is_avail, rx_is_ready,
                                IF rx_idx[i] < Len(line)
                                THEN line[rx_idx[i] + 1] ELSE 0))

TaskHwLine(i, tx_is_avail, line) ==
    \E rx_is_ready \in {r \in BOOLEAN : r => rx_idx[i] < Len(line)} :
        TaskHwRx(i, tx_is_avail, rx_is_ready, line)

TaskHw(i) ==
    /\ pkttransfer_is_init(inst[i])
    /\ \E tx_is_avail \in BOOLEAN :
         TaskHwLine(i, tx_is_avail,
                    HwLine(i, pkttransfer_task(inst[i], tx_is_avail, FALSE, 0).tx))

InitHw ==
    /\ InitIdle
    /\ link = [i \in Ids |-> IF i = 1 THEN 1 ELSE 0]

NextHw == Send(1) \/ TaskHw(1)

SpecHw == InitHw /\ [][NextHw]_vars

\* the transmitter state of instance I: state machine, sizes, counter, buffer
TxSide(I) ==
    [tx_state |-> I.tx_state, tx_size |-> I.tx_size, sent_size |-> I.sent_size,
     sent_packets_cnt |-> I.sent_packets_cnt, buf_tx |-> I.buf_tx]

\* the calls of callback cb in the trace hw
HwCalls(hw, cb) == {k \in 1..Len(hw) : hw[k].cb = cb}

\* C27: in one task call tx_cb is called exactly once if tx_size # 0 and
\* tx_is_avail_cb returns true, and not at all otherwise; when it is not
\* called the transmitter state and the bytes sent so far are unchanged.
C27_TransmitGate ==
    [][TaskStep(1) =>
        IF inst[1].tx_size # 0 /\ last_op'.avail
        THEN /\ Cardinality(HwCalls(last_op'.hw, "tx_cb")) = 1
             /\ Len(hw_tx'[1]) = Len(hw_tx[1]) + 1
        ELSE /\ HwCalls(last_op'.hw, "tx_cb") = {}
             /\ hw_tx'[1] = hw_tx[1]
             /\ TxSide(inst'[1]) = TxSide(inst[1])]_vars

\* a task call found the hardware busy in the middle of a frame
C27_Witness ==
    /\ last_op.op = "task" /\ ~last_op.avail
    /\ inst[1].tx_size # 0 /\ inst[1].sent_size > 0
    /\ HwCalls(last_op.hw, "tx_is_avail_cb") # {}
    /\ HwCalls(last_op.hw, "tx_cb") = {}
    /\ Len(hw_tx[1]) < Len(tx_frame[1])

\* C28: in one task call rx_cb is called exactly once if rx_is_ready_cb
\* returns true, and not at all otherwise; when it returns false the receiver
\* state (rx_state, rx_size, receive buffer, both receive counters) is
\* unchanged, nothing is read and nothing is delivered, so a partial frame
\* stays buffered.
C28_ReceiveGate ==
    [][TaskStep(1) =>
        /\ Cardinality(HwCalls(last_op'.hw, "rx_is_ready_cb")) = 1
        /\ IF last_op'.ready
           THEN /\ Cardinality(HwCalls(last_op'.hw, "rx_cb")) = 1
                /\ rx_idx'[1] = rx_idx[1] + 1
           ELSE /\ HwCalls(last_op'.hw, "rx_cb") = {}
                /\ rx_idx'[1] = rx_idx[1]
                /\ RxSide(inst'[1]) = RxSide(inst[1])
                /\ app'[1] = app[1]]_vars

\* a task call found no byte ready while a frame was partially received
C28_Witness ==
    /\ last_op.op = "task" /\ ~last_op.ready
    /\ inst[1].rx_state = PKTTRANSFER_STATE_BYTE /\ inst[1].rx_size > 0
    /\ HwCalls(last_op.hw, "rx_cb") = {}

\* the calls made for the transmit step and for the receive step of a task call
HwTxCalls(hw) == HwCalls(hw, "tx_is_avail_cb") \cup HwCalls(hw, "tx_cb")

HwRxCalls(hw) == HwCalls(hw, "rx_is_ready_cb") \cup HwCalls(hw, "rx_cb")

\* C29: within one task call the transmit step precedes the receive step:
\* the tx_is_avail_cb query and the tx_cb call come before the rx_is_ready_cb
\* query and the rx_cb call (and each query before the call it gates).
C29_TransmitBeforeReceive ==
    (last_op.op = "task") =>
        /\ \A a \in HwTxCalls(last_op.hw) : \A b \in HwRxCalls(last_op.hw) : a < b
        /\ \A a \in HwCalls(last_op.hw, "tx_is_avail_cb") :
             \A b \in HwCalls(last_op.hw, "tx_cb") : a < b
        /\ \A a \in HwCalls(last_op.hw, "rx_is_ready_cb") :
             \A b \in HwCalls(last_op.hw, "rx_cb") : a < b

\* one task call sent the leading delimiter and received it back
C29_Witness ==
    /\ last_op.op = "task"
    /\ last_op.hw = HwCall("tx_is_avail_cb", 1) \o HwCall("tx_cb", PKTTRANSFER_FRAME_DELIMITER_BYTE)
                    \o HwCall("rx_is_ready_cb", 1) \o HwCall("rx_cb", PKTTRANSFER_FRAME_DELIMITER_BYTE)
    /\ wire[1] = <<PKTTRANSFER_FRAME_DELIMITER_BYTE>> /\ rx_idx[1] = 1
    /\ inst[1].sof_detections_cnt = 1

-----------------------------------------------------------------------------
(* SpecCanDuplex: one instance of the CAN build sends while it receives *)

NextCanDuplex == SendCanOnce(1) \/ ArriveCan(1) \/ TaskCanWhole(1)

SpecCanDuplex == InitRx /\ [][NextCanDuplex]_vars

\* the three counters of instance I
Counters(I) ==
    [sent_packets_cnt |-> I.sent_packets_cnt,
     received_packets_cnt |-> I.received_packets_cnt,
     sof_detections_cnt |-> I.sof_detections_cnt]

\* C26: an accepted send of a payload of length len copies the payload to
\* positions 0..len-1 of the TX buffer, writes the low byte of its CRC at
\* position len and the high byte at len+1, sets tx_size = len + 2 and
\* sent_size = 0, finds and leaves tx_state DELIMITER, records can_id_tx, and
\* changes no field of the receiver and no counter.
C26_AcceptedSendEffect ==
    [][(SendStep(1) /\ last_op'.res = PKTTRANSFER_ERR_OK) =>
        LET len == last_op'.size
            crc == CrcX25(tx_cur'[1])
        IN  /\ len = Len(tx_cur'[1])
            /\ \A k \in 0..(len - 1) : inst'[1].buf_tx[k] = tx_cur'[1][k + 1]
            /\ inst'[1].buf_tx[len] = crc % 256
            /\ inst'[1].buf_tx[len + 1] = crc \div 256
            /\ inst'[1].tx_size = len + 2
            /\ inst'[1].sent_size = 0
            /\ inst[1].tx_state = PKTTRANSFER_STATE_DELIMITER
            /\ inst'[1].tx_state = PKTTRANSFER_STATE_DELIMITER
            /\ inst'[1].can_id_tx = can'[1].id_try
            /\ RxSide(inst'[1]) = RxSide(inst[1])
            /\ Counters(inst'[1]) = Counters(inst[1])]_vars

\* a payload of the largest size was accepted while a frame was being received
C26_Witness ==
    /\ last_op = [op |-> "send", id |-> 1, size |-> PayloadMax,
                  res |-> PKTTRANSFER_ERR_OK]
    /\ inst[1].tx_size = PayloadMax + 2
    /\ inst[1].rx_state = PKTTRANSFER_STATE_BYTE /\ inst[1].rx_size > 0
    /\ inst[1].sof_detections_cnt > 0
    /\ inst[1].can_id_tx = 2

-----------------------------------------------------------------------------
(* The room of the receive buffer *)

\* the byte rx_cb hands to the task of instance i next
RxNextByte(i) == wire[i][rx_idx[i] + 1]

\* C25: the decoder buffers up to payload_size_max + 2 body bytes: in state
\* BYTE an ordinary byte is appended whenever rx_size < payload_size_max + 2,
\* in state ENCODED_BYTE a valid escaped byte is appended whenever
\* rx_size < payload_size_max + 2, and a frame is dropped for want of room
\* only when rx_size has reached payload_size_max + 2.
C25_BuffersPayloadAndCrc ==
    [][RxStep(1) =>
        LET I     == inst[1]
            J     == inst'[1]
            byte  == RxNextByte(1)
            room  == I.rx_size < I.payload_size_max + PKTTRANSFER_FRAME_CRC_SIZE
            plain == /\ byte # PKTTRANSFER_FRAME_DELIMITER_BYTE
                     /\ byte # PKTTRANSFER_FRAME_ESCAPE_BYTE
        IN  /\ (I.rx_state = PKTTRANSFER_STATE_BYTE /\ plain /\ room) =>
                 /\ J.rx_state = PKTTRANSFER_STATE_BYTE
                 /\ J.rx_size = I.rx_size + 1
                 /\ J.buf_rx[I.rx_size] = byte
            /\ (I.rx_state = PKTTRANSFER_STATE_ENCODED_BYTE
                    /\ ~RxWrongEscape(byte) /\ room) =>
                 /\ J.rx_state = PKTTRANSFER_STATE_BYTE
                 /\ J.rx_size = I.rx_size + 1
                 /\ J.buf_rx[I.rx_size] = RxDecoded(byte)
            /\ (\/ I.rx_state = PKTTRANSFER_STATE_BYTE /\ plain
                \/ I.rx_state = PKTTRANSFER_STATE_ENCODED_BYTE
                     /\ ~RxWrongEscape(byte)) =>
                 (J.rx_state = PKTTRANSFER_STATE_DELIMITER => ~room)]_vars

-----------------------------------------------------------------------------
(* SpecTwo: two instances of the CAN build, each with its own buffers and *)
(* its own bus, driven in any interleaving                                *)

\* mutant of TxBufOf: both configurations name the same TX buffer
TxBufOf_Shared(i) == 1

\* the memory the configuration of instance i names as buf_tx_p and buf_rx_p
TxBufOf(i) == i

RxBufOf(i) == i

\* the memory after a call on instance i that leaves it as I: the structure
\* of i and its two buffers are written; an instance whose configuration
\* names the same buffer sees the bytes written there; the driver has no
\* static data, so nothing else is written
Store(i, I) ==
    [j \in Ids |->
        IF j = i THEN I
        ELSE [inst[j] EXCEPT
                !.buf_tx = IF TxBufOf(j) = TxBufOf(i) THEN I.buf_tx ELSE @,
                !.buf_rx = IF RxBufOf(j) = RxBufOf(i) THEN I.buf_rx ELSE @]]

\* the lifecycle calls made on each of the two instances
TwoLife == 1

\* the payloads the application of instance i sends: one that is accepted,
\* different for the two instances, and one that is too long
TwoPayloads(i) == {IF i = 1 THEN Fill(1) ELSE EscFill(1), Fill(PayloadMax + 1)}

\* the state after a call op on instance i: I is the instance after the call,
\* R what the same call gives an instance that is driven alone
\* (uart_ref[i]: the instance, what its application received, the result of
\* the call and the bytes it sent)
TwoDone(i, I, R, op, size, res) ==
    /\ inst' = Store(i, I)
    /\ uart_ref' = [uart_ref EXCEPT ![i] = R]
    /\ last_op' = [op |-> op, id |-> i, size |-> size, res |-> res]

TwoAlone(I, app_p, res, tx) == [inst |-> I, app |-> app_p, res |-> res, tx |-> tx]

TwoInit(i) ==
    /\ life[i].calls < TwoLife
    /\ TwoDone(i, pkttransfer_init_inst(inst[i], PayloadMax),
               TwoAlone(pkttransfer_init_inst(uart_ref[i].inst, PayloadMax),
                        uart_ref[i].app, PKTTRANSFER_ERR_OK, uart_ref[i].tx),
               "init", 0, PKTTRANSFER_ERR_OK)
    /\ life' = [life EXCEPT ![i] = [calls |-> @.calls + 1, up |-> TRUE,
                                     again |-> @.up]]
    /\ UNCHANGED <<wire, segs, rx_idx, hw_tx, tx_cur, tx_frame, app, link,
                   asserts_ok, can>>

TwoDeinit(i) ==
    /\ life[i].calls < TwoLife
    /\ TwoDone(i, pkttransfer_deinit(inst[i]),
               TwoAlone(pkttransfer_deinit(uart_ref[i].inst),
                        uart_ref[i].app, PKTTRANSFER_ERR_OK, uart_ref[i].tx),
               "deinit", 0, PKTTRANSFER_ERR_OK)
    /\ life' = [life EXCEPT ![i] = [calls |-> @.calls + 1, up |-> FALSE,
                                     again |-> ~@.up]]
    /\ UNCHANGED <<wire, segs, rx_idx, hw_tx, tx_cur, tx_frame, app, link,
                   asserts_ok, can>>

TwoSendDone(i, payload_p, s, sR) ==
    /\ TwoDone(i, s.inst,
               TwoAlone(sR.inst, uart_ref[i].app, sR.res, uart_ref[i].tx),
               "send", Len(payload_p), s.res)
    /\ UNCHANGED <<wire, segs, rx_idx, hw_tx, tx_cur, tx_frame, app, link,
                   asserts_ok, can, life>>

TwoSend(i) ==
    /\ pkttransfer_is_init(inst[i])
    /\ \E payload_p \in TwoPayloads(i) :
        /\ (~SendTooLong(inst[i], Len(payload_p)) /\ ~SendBusy(inst[i]))
                => (inst[i].sent_packets_cnt < MaxPackets)
        /\ TwoSendDone(i, payload_p,
                pkttransfer_send_can(inst[i], payload_p, Len(payload_p), i),
                pkttransfer_send_can(uart_ref[i].inst, payload_p,
                                     Len(payload_p), i))

TwoSetCanIdRx(i) ==
    /\ pkttransfer_is_init(inst[i])
    /\ \E can_id_rx \in CanIds :
        /\ TwoDone(i, pkttransfer_set_can_id_rx(inst[i], can_id_rx).inst,
                   TwoAlone(pkttransfer_set_can_id_rx(uart_ref[i].inst,
                                                      can_id_rx).inst,
                            uart_ref[i].app, PKTTRANSFER_ERR_OK, uart_ref[i].tx),
                   "set_can_id_rx", 0, PKTTRANSFER_ERR_OK)
        /\ UNCHANGED <<wire, segs, rx_idx, hw_tx, tx_cur, tx_frame, app, link,
                       asserts_ok, can, life>>

TwoTaskDone(i, n, t, tR) ==
    /\ TwoDone(i, t.inst,
               TwoAlone(tR.inst, uart_ref[i].app \o tR.cb, PKTTRANSFER_ERR_OK,
                        uart_ref[i].tx \o CanBytes(tR.tx)),
               "task", n, PKTTRANSFER_ERR_OK)
    /\ hw_tx' = [hw_tx EXCEPT ![i] = @ \o CanBytes(t.tx)]
    /\ wire' = [wire EXCEPT ![i] = @ \o CanBytes(t.tx)]
    /\ rx_idx' = [rx_idx EXCEPT ![i] = @ + n]
    /\ app' = [app EXCEPT ![i] = @ \o t.cb]
    /\ asserts_ok' = (asserts_ok /\ t.ok)
    /\ UNCHANGED <<segs, tx_cur, tx_frame, link, can, life>>

TwoTaskRead(i, n, rx_data) ==
    TwoTaskDone(i, n, pkttransfer_task_can(inst[i], TRUE, n > 0, rx_data),
                pkttransfer_task_can(uart_ref[i].inst, TRUE, n > 0, rx_data))

\* a task call of instance i on its own bus, which is free and hands over
\* what is waiting as one message
TwoTask(i) ==
    /\ pkttransfer_is_init(inst[i])
    /\ TwoTaskRead(i, CanWaiting(i),
                   SubSeq(wire[i], rx_idx[i] + 1, rx_idx[i] + CanWaiting(i)))

InitTwo ==
    /\ inst = [i \in Ids |-> FreshInst]
    /\ wire = [i \in Ids |-> <<>>]
    /\ segs = [i \in Ids |-> 0]
    /\ rx_idx = [i \in Ids |-> 0]
    /\ hw_tx = [i \in Ids |-> <<>>]
    /\ tx_cur = [i \in Ids |-> NoPayload]
    /\ tx_frame = [i \in Ids |-> <<>>]
    /\ app = [i \in Ids |-> <<>>]
    /\ last_op = [op |-> "init", id |-> 0, size |-> 0, res |-> PKTTRANSFER_ERR_OK]
    /\ asserts_ok = TRUE
    /\ can = [i \in Ids |-> NoCan]
    /\ life = [i \in Ids |-> [calls |-> 0, up |-> TRUE, again |-> FALSE]]
    /\ uart_ref = [i \in Ids |-> TwoAlone(FreshInst, <<>>, PKTTRANSFER_ERR_OK, <<>>)]
    /\ link = [i \in Ids |-> i]

NextTwo ==
    \E i \in Ids :
        TwoInit(i) \/ TwoDeinit(i) \/ TwoSend(i) \/ TwoSetCanIdRx(i) \/ TwoTask(i)

SpecTwo == InitTwo /\ [][NextTwo]_vars

\* what belongs to instance i: its structure and buffers, what its
\* application received, its bus, its lifecycle
TwoOwn(i) ==
    [inst |-> inst[i], app |-> app[i], hw_tx |-> hw_tx[i], wire |-> wire[i],
     rx_idx |-> rx_idx[i], life |-> life[i], alone |-> uart_ref[i]]

-----------------------------------------------------------------------------
(* The end of a received frame *)

\* the task call of instance i reads a 0x7E while the decoder is in state st
RxDelimiterIn(i, st) ==
    /\ RxStep(i)
    /\ inst[i].rx_state = st
    /\ RxNextByte(i) = PKTTRANSFER_FRAME_DELIMITER_BYTE

\* C31: whenever the decoder consumes a 0x7E in state BYTE, whatever it has
\* buffered and whether or not the CRC matches, it ends the step in state
\* DELIMITER with rx_size = 0 and without counting a start of frame; the
\* 0x7E consumed next, in state DELIMITER, is the one that increments
\* sof_detections_cnt.
C31_CloseResetsDecoder ==
    [][/\ RxDelimiterIn(1, PKTTRANSFER_STATE_BYTE) =>
            /\ inst'[1].rx_state = PKTTRANSFER_STATE_DELIMITER
            /\ inst'[1].rx_size = 0
            /\ inst'[1].sof_detections_cnt = inst[1].sof_detections_cnt
       /\ RxDelimiterIn(1, PKTTRANSFER_STATE_DELIMITER) =>
            /\ inst'[1].rx_state = PKTTRANSFER_STATE_BYTE
            /\ inst'[1].sof_detections_cnt = inst[1].sof_detections_cnt + 1]_vars

\* a frame with a wrong CRC has just been closed: nothing was delivered and
\* the decoder waits for a start of frame
C31_Witness ==
    /\ last_op.op = "task" /\ rx_idx[1] = Len(wire[1]) /\ rx_idx[1] >= 5
    /\ wire[1][rx_idx[1]] = PKTTRANSFER_FRAME_DELIMITER_BYTE
    /\ wire[1][1] = PKTTRANSFER_FRAME_DELIMITER_BYTE
    /\ segs[1] = 1 /\ app[1] = <<>>
    /\ inst[1].sof_detections_cnt = 1
    /\ inst[1].rx_state = PKTTRANSFER_STATE_DELIMITER /\ inst[1].rx_size = 0
    /\ inst[1].buf_rx[2] # 0

\* the stream s holds nothing but 0x7E
OnlyDelimiters(s) == \A k \in 1..Len(s) : s[k] = PKTTRANSFER_FRAME_DELIMITER_BYTE

\* C32: a frame closed with at most 2 buffered bytes is discarded without a
\* callback and without a change of received_packets_cnt; a received stream
\* of nothing but 0x7E, of any length, counts a start of frame at every
\* other byte and never calls app_pkt_cb nor changes received_packets_cnt.
C32_ShortFramesDiscarded ==
    /\ [][(RxDelimiterIn(1, PKTTRANSFER_STATE_BYTE)
             /\ inst[1].rx_size <= PKTTRANSFER_FRAME_CRC_SIZE) =>
            /\ app'[1] = app[1]
            /\ inst'[1].received_packets_cnt = inst[1].received_packets_cnt]_vars
    /\ [](OnlyDelimiters(wire[1]) =>
            /\ app[1] = <<>>
            /\ inst[1].received_packets_cnt = 0
            /\ inst[1].sof_detections_cnt = (rx_idx[1] + 1) \div 2)

\* a run of delimiters longer than a frame was read to its end
C32_Witness ==
    /\ OnlyDelimiters(wire[1]) /\ Len(wire[1]) = PayloadMax + 1
    /\ rx_idx[1] = Len(wire[1])
    /\ inst[1].sof_detections_cnt = (PayloadMax + 2) \div 2
    /\ app[1] = <<>>

-----------------------------------------------------------------------------
(* The empty packet *)

\* the frame of the empty payload: the CRC of no bytes, low byte first,
\* stuffed, between two delimiters
EmptyFrame ==
    <<PKTTRANSFER_FRAME_DELIMITER_BYTE>>
        \o Stuffed(<<CrcX25(<<>>) % 256, CrcX25(<<>>) \div 256>>)
        \o <<PKTTRANSFER_FRAME_DELIMITER_BYTE>>

\* the bytes of the frame being sent by instance 1 are the last bytes that
\* went to instance 2
TxFrameOnWire ==
    /\ Len(hw_tx[1]) <= Len(wire[2])
    /\ SubSeq(wire[2], Len(wire[2]) - Len(hw_tx[1]) + 1, Len(wire[2])) = hw_tx[1]

\* instance 2 reads a byte of the frame being sent by instance 1
RxReadsTxFrame ==
    /\ rx_idx'[2] = rx_idx[2] + 1
    /\ rx_idx[2] >= Len(wire[2]) - Len(hw_tx[1])
    /\ tx_cur'[1] = tx_cur[1]

\* C33: when a send of 0 bytes is accepted, the frame emitted is 0x7E, the
\* two stuffed bytes of the CRC of the empty buffer, 0x7E, and the decoder
\* that is fed this frame makes no callback and does not count a packet
\* while it reads the frame.
C33_EmptySend ==
    /\ []((tx_cur[1] = <<>>) =>
            /\ inst[1].tx_size \in {0, PKTTRANSFER_FRAME_CRC_SIZE}
            /\ IsPrefix(hw_tx[1], EmptyFrame)
            /\ (inst[1].tx_size = 0) => (hw_tx[1] = EmptyFrame)
            /\ TxFrameOnWire)
    /\ [][(tx_cur[1] = <<>> /\ RxReadsTxFrame) =>
            /\ app'[2] = app[2]
            /\ inst'[2].received_packets_cnt = inst[2].received_packets_cnt]_vars

\* the empty packet was sent to its end and the receiver has read all of it
C33_Witness ==
    /\ tx_cur[1] = <<>> /\ inst[1].tx_size = 0 /\ inst[1].sent_packets_cnt = 1
    /\ hw_tx[1] = EmptyFrame /\ Len(EmptyFrame) = 4
    /\ rx_idx[2] = Len(wire[2]) /\ wire[2] = EmptyFrame
    /\ inst[2].sof_detections_cnt = 1
    /\ inst[2].rx_state = PKTTRANSFER_STATE_DELIMITER
    /\ app[2] = <<>>

-----------------------------------------------------------------------------
(* SpecRxSeen: the receiver of SpecRx, with what the application sees *)
(* while app_pkt_cb runs                                              *)

NextRxSeen == Arrive(1) \/ TaskHw(1)

SpecRxSeen == InitRx /\ [][NextRxSeen]_vars

\* the task call of instance i delivers a packet
Delivers(i) == TaskStep(i) /\ Len(app'[i]) = Len(app[i]) + 1

\* received_packets_cnt is the number of app_pkt_cb calls since init
CountsDeliveries == inst[1].received_packets_cnt = Len(app[1])

\* The statement of C34 as the specification has it: the payload is delivered
\* through the callback and then received_packets_cnt is incremented, so the
\* callback runs with the count of the packets before it.
C34_CallbackThenCount ==
    /\ [][Delivers(1) => (last_op'.seen = <<inst[1].received_packets_cnt>>)]_vars
    /\ []CountsDeliveries

\* C34 (amended): between task calls received_packets_cnt equals the number
\* of app_pkt_cb calls made since init; within the end of a frame
\* received_packets_cnt is incremented first and the payload is then
\* delivered, so the callback runs with the count that includes its packet.
C34_CountThenCallback ==
    /\ [][/\ Delivers(1) =>
              /\ last_op'.seen = <<inst[1].received_packets_cnt + 1>>
              /\ inst'[1].received_packets_cnt = inst[1].received_packets_cnt + 1
          /\ (TaskStep(1) /\ ~Delivers(1)) =>
              /\ last_op'.seen = <<>>
              /\ app'[1] = app[1]
              /\ inst'[1].received_packets_cnt = inst[1].received_packets_cnt]_vars
    /\ []CountsDeliveries

\* the second packet has just been delivered: its callback saw the count 2
C34_Witness ==
    /\ last_op.op = "task" /\ last_op.seen = <<2>>
    /\ Len(app[1]) = 2 /\ inst[1].received_packets_cnt = 2

-----------------------------------------------------------------------------
(* The assertions of the driver *)

FrameStates ==
    {PKTTRANSFER_STATE_DELIMITER, PKTTRANSFER_STATE_BYTE,
     PKTTRANSFER_STATE_ENCODED_BYTE}

\* C35: with an initialized instance, calls made one after the other and a
\* callback that does not call the driver, no assertion of the driver fails:
\* the encoder is entered only with 0 < tx_size <= payload_size_max + 2 and
\* sent_size <= tx_size, also inside the loop that fills a CAN message, the
\* decoder only with rx_size <= payload_size_max + 2, and both state
\* machines are always in one of their three states.
C35_NoAssertionFails ==
    /\ asserts_ok
    /\ inst[1].tx_size <= inst[1].payload_size_max + PKTTRANSFER_FRAME_CRC_SIZE
    /\ inst[1].sent_size <= inst[1].tx_size
    /\ inst[1].rx_size <= inst[1].payload_size_max + PKTTRANSFER_FRAME_CRC_SIZE
    /\ inst[1].tx_state \in FrameStates
    /\ inst[1].rx_state \in FrameStates

\* a frame longer than one CAN message was sent to its end, and the receiver
\* has read a frame longer than its buffer
C35_Witness ==
    /\ asserts_ok
    /\ inst[1].sent_packets_cnt = 1 /\ inst[1].tx_size = 0
    /\ Len(hw_tx[1]) > PKTTRANSFER_CAN_MGS_SIZE
    /\ IsPrefix(Frame(Fill(PayloadMax + 1)), wire[1])
    /\ rx_idx[1] = Len(wire[1])

-----------------------------------------------------------------------------
(* The CAN identifiers *)

SetCanIdRxStep(i) == last_op'.op = "set_can_id_rx" /\ last_op'.id = i

\* set_can_id_rx stores the identifier passed and changes nothing else of
\* the instance, of what was sent and of what was delivered
SetCanIdRxEffect ==
    SetCanIdRxStep(1) =>
        /\ inst'[1] = [inst[1] EXCEPT !.can_id_rx = can'[1].id_rx]
        /\ hw_tx'[1] = hw_tx[1]
        /\ app'[1] = app[1]

\* The statement of C36 as the specification has it: set_can_id_rx changes
\* only can_id_rx, and can_id_tx changes only through an accepted send.
C36_IdTxOnlyBySend ==
    [][/\ SetCanIdRxEffect
       /\ (inst'[1].can_id_tx # inst[1].can_id_tx) =>
            (SendStep(1) /\ last_op'.res = PKTTRANSFER_ERR_OK)]_vars

\* C36 (amended): set_can_id_rx changes only can_id_rx; can_id_tx changes
\* only through an accepted send, which stores the identifier passed, and
\* through init and deinit, which reset it to 0.
C36_IdTxBySendOrReset ==
    [][/\ SetCanIdRxEffect
       /\ (inst'[1].can_id_tx # inst[1].can_id_tx) =>
            \/ /\ SendStep(1) /\ last_op'.res = PKTTRANSFER_ERR_OK
               /\ inst'[1].can_id_tx = can'[1].id_try
            \/ /\ InitStep(1) \/ DeinitStep(1)
               /\ inst'[1].can_id_tx = 0]_vars

\* the receive identifier was set while a frame with another transmit
\* identifier was waiting to be sent
C36_Witness ==
    /\ last_op.op = "set_can_id_rx"
    /\ inst[1].can_id_rx = 1 /\ inst[1].can_id_tx = 2
    /\ inst[1].tx_size # 0
    /\ life[1].calls = MaxLife

-----------------------------------------------------------------------------
(* What the encoder puts on the wire *)

\* the positions of byte b in the bytes s
Places(s, b) == {k \in 1..Len(s) : s[k] = b}

\* the frame of the packet accepted last was emitted to its end
TxFrameDone(i) == tx_cur[i] # NoPayload /\ inst[i].tx_size = 0

\* C37: for every payload, between the leading and the trailing delimiter
\* of an emitted frame no byte equals 0x7E, every emitted 0x7D is followed
\* at once by 0x5E or 0x5D (which the encoder owes while it has emitted only
\* the 0x7D), and exactly two 0x7E are emitted for a packet.
C37_WireTransparency ==
    LET out == hw_tx[1]
    IN  /\ \A k \in Places(out, PKTTRANSFER_FRAME_DELIMITER_BYTE) :
             \/ k = 1
             \/ k = Len(out) /\ TxFrameDone(1)
        /\ \A k \in Places(out, PKTTRANSFER_FRAME_ESCAPE_BYTE) :
             IF k < Len(out)
             THEN out[k + 1] \in {PKTTRANSFER_FRAME_ENCODED_DELIMITER_BYTE,
                                 PKTTRANSFER_FRAME_ENCODED_ESCAPE_BYTE}
             ELSE inst[1].tx_state = PKTTRANSFER_STATE_ENCODED_BYTE
        /\ TxFrameDone(1) =>
             Places(out, PKTTRANSFER_FRAME_DELIMITER_BYTE) = {1, Len(out)}
        /\ (out # <<>>) => (out[1] = PKTTRANSFER_FRAME_DELIMITER_BYTE)

\* a payload of delimiter and escape bytes was sent to its end
C37_Witness ==
    /\ TxFrameDone(1) /\ Len(tx_cur[1]) = PayloadMax
    /\ tx_cur[1][1] = PKTTRANSFER_FRAME_DELIMITER_BYTE
    /\ tx_cur[1][2] = PKTTRANSFER_FRAME_ESCAPE_BYTE
    /\ Cardinality(Places(hw_tx[1], PKTTRANSFER_FRAME_ESCAPE_BYTE)) >= 2
    /\ Len(hw_tx[1]) >= PayloadMax + 6

-----------------------------------------------------------------------------
(* Invariants of the receiving side *)

C39_SofAtLeastPackets ==
    /\ [](\A i \in Ids :
            /\ inst[i].sof_detections_cnt >= inst[i].received_packets_cnt
            /\ inst[i].sof_detections_cnt >= Len(app[i]))
    /\ [][(Len(app'[1]) > Len(app[1])) =>
            /\ inst'[1].sof_detections_cnt = inst[1].sof_detections_cnt
            /\ inst[1].sof_detections_cnt > inst[1].received_packets_cnt]_vars

\* two frames were started and both were delivered
C39_Witness ==
    /\ inst[1].sof_detections_cnt = 2 /\ inst[1].received_packets_cnt = 2
    /\ Len(app[1]) = 2
    /\ inst[1].rx_state = PKTTRANSFER_STATE_DELIMITER

-----------------------------------------------------------------------------
(* The indices at which the driver accesses the caller's buffers *)

\* pkttransfer_send: the indices of the TX buffer written by memcpy and by
\* "Add CRC"; none when the packet is refused
SendStores(I, size) ==
    IF SendTooLong(I, size) \/ SendBusy(I) THEN {}
    ELSE (0..(size - 1)) \cup {size, size + 1}

\* pkttransfer_prepare_byte: the index of the TX buffer read for
\* next_payload_byte; none when the trailing delimiter is returned
PrepareLoads(I) == IF TxLastPrepared(I) THEN {} ELSE {I.sent_size}

\* pkttransfer_process_byte: the index of the RX buffer written for byte
ProcessStores(I, byte) ==
    IF I.rx_state = PKTTRANSFER_STATE_BYTE
    THEN IF \/ byte = PKTTRANSFER_FRAME_ESCAPE_BYTE
            \/ byte = PKTTRANSFER_FRAME_DELIMITER_BYTE
            \/ RxOverflow(I)
         THEN {} ELSE {I.rx_size}
    ELSE IF I.rx_state = PKTTRANSFER_STATE_ENCODED_BYTE
    THEN IF RxWrongEscape(byte) \/ RxOverflow(I) THEN {} ELSE {I.rx_size}
    ELSE {}

\* pkttransfer_process_frame: the indices of the RX buffer read for the CRC
\* field, by pkttransfer_crc16 and, through payload_p, by app_pkt_cb
FrameLoads(I) ==
    IF RxTooShort(I) THEN {}
    ELSE {I.rx_size - 1, I.rx_size - 2}
            \cup (0..(I.rx_size - PKTTRANSFER_FRAME_CRC_SIZE - 1))

\* the bytes the decoder tells apart, and two it does not
RxByteClasses ==
    {0, 42, PKTTRANSFER_FRAME_ENCODED_ESCAPE_BYTE,
     PKTTRANSFER_FRAME_ENCODED_DELIMITER_BYTE, PKTTRANSFER_FRAME_ESCAPE_BYTE,
     PKTTRANSFER_FRAME_DELIMITER_BYTE}

\* the indices of a buffer of payload_size_max + 2 bytes
BufIndices(I) == 0..(I.payload_size_max + PKTTRANSFER_FRAME_CRC_SIZE - 1)

\* C40: in every state reached by any sequence of operations, the call made
\* next accesses the buffers inside their payload_size_max + 2 bytes: send
\* writes the TX buffer only at 0 .. len+1 <= payload_size_max + 1, the
\* encoder reads it only below tx_size, the decoder writes the RX buffer only
\* below payload_size_max + 2, and the end of a frame reads it only below
\* rx_size.
C40_BufferIndexSafety ==
    \A i \in Ids :
        LET I == inst[i]
        IN  pkttransfer_is_init(I) =>
              /\ BufIndices(I) = DOMAIN I.buf_tx
              /\ BufIndices(I) = DOMAIN I.buf_rx
              /\ \A size \in 0..(PayloadMax + 2) :
                   /\ SendStores(I, size) \subseteq 0..(size + 1)
                   /\ SendStores(I, size) \subseteq BufIndices(I)
              /\ (I.tx_size # 0) =>
                   /\ PrepareLoads(I) \subseteq 0..(I.tx_size - 1)
                   /\ PrepareLoads(I) \subseteq BufIndices(I)
              /\ \A byte \in RxByteClasses :
                   ProcessStores(I, byte) \subseteq BufIndices(I)
              /\ FrameLoads(I) \subseteq 0..(I.rx_size - 1)
              /\ FrameLoads(I) \subseteq BufIndices(I)

\* the encoder is about to read the last byte of a full TX buffer while the
\* decoder is about to write the last place it uses
C40_Witness ==
    /\ inst[1].tx_size = PayloadMax + PKTTRANSFER_FRAME_CRC_SIZE
    /\ PrepareLoads(inst[1]) = {PayloadMax + 1}
    /\ inst[2].rx_state = PKTTRANSFER_STATE_BYTE
    /\ ProcessStores(inst[2], 42) = {PayloadMax - 1}

====
